---- MODULE Spec2Model ----
(***************************************************************************)
(* A model of scraper.py: the lead pipeline that lists businesses, enriches *)
(* each card with data scraped from its website, filters, deduplicates and  *)
(* appends the accepted leads to a Google Sheet with retries.               *)
(*                                                                          *)
(* Strings the code strips or compares character-wise (website, email) are *)
(* sequences of one-character strings, so that str.strip() is computed and  *)
(* not assumed.  All other text fields are plain strings.                   *)
(***************************************************************************)
EXTENDS Integers, Sequences, FiniteSets, TLC

\* ------------------------------------------------------------------ bounds
\* Longest record list handed to a filter in the pure-function specifications.
MaxLen == 3
\* The largest --max-per-query value tried.
MaxPerQuery == 2
\* The most cards the listing shows for one query.
MaxListed == 3
\* The largest --max-concurrent value tried.
MaxConcurrent == 2
\* The most records a --load-from file holds.
MaxLoad == 2
\* The per-query cap of the single-query run, so the most tasks of one batch.
MaxTasks == 3

\* ------------------------------------------------------- program constants
\* max_retries as one attempt too many.
max_retries_more == 5 + 1

\* write_rows: max_retries
max_retries == 5
\* write_rows: base_delay (seconds)
base_delay == 2

\* ------------------------------------------------------------------ strings
RECURSIVE lstrip(_)
lstrip(s) ==
    IF s # <<>> /\ Head(s) = " " THEN lstrip(Tail(s)) ELSE s

RECURSIVE rstrip(_)
rstrip(s) ==
    IF s # <<>> /\ s[Len(s)] = " " THEN rstrip(SubSeq(s, 1, Len(s) - 1)) ELSE s

\* str.strip(): leading and trailing blanks removed.
strip(s) == rstrip(lstrip(s))

\* Websites and emails the model draws from.
SiteA == <<"a">>
SitePadA == <<" ", "a">>
SiteB == <<"b">>
Blank == <<" ">>
NoText == <<>>
MailE == <<"e">>

\* ------------------------------------------------------------------ records
\* BusinessRecord, built as enrich_card_with_site builds it from a card.
BusinessRecord(card, email, migliorabile, note, ts) ==
    [ query            |-> card.query,
      business_keyword |-> card.business_keyword,
      city             |-> card.city,
      name             |-> card.name,
      category         |-> card.category,
      address          |-> card.address,
      phone            |-> card.phone,
      website          |-> card.website,
      email            |-> email,
      rating           |-> card.rating,
      reviews          |-> card.reviews,
      migliorabile     |-> migliorabile,
      note             |-> note,
      timestamp        |-> ts ]

\* BusinessRecord.keyword_combo
keyword_combo(r) == r.business_keyword

\* to_row with the website in the first column and the email in the third.
to_row_website_first(r) ==
    << r.website, r.phone, r.email, keyword_combo(r), "", r.city, "no" >>

\* BusinessRecord.to_row: the seven sheet columns of a record.
to_row(r) ==
    << r.email, r.phone, r.website, keyword_combo(r), "", r.city, "no" >>

\* The card scrape_card_basic returns for listing position idx of a query.
CardNames == << "n1", "n2", "n3", "n4", "n5", "n6" >>

scrape_card_basic(q, idx, website) ==
    [ query            |-> q.keyword \o " " \o q.city,
      business_keyword |-> q.keyword,
      city             |-> q.city,
      name             |-> CardNames[idx],
      category         |-> "cat",
      address          |-> "addr",
      phone            |-> "tel",
      website          |-> website,
      rating           |-> "4.5",
      reviews          |-> "10" ]

\* ------------------------------------------------------------ pure filters
\* DedupLoop with seen.add(website) left out.
RECURSIVE DedupLoop_noadd(_, _, _, _)
DedupLoop_noadd(records, i, seen, unique) ==
    IF i > Len(records) THEN [unique |-> unique, seen |-> seen]
    ELSE LET r == records[i]
             website == strip(r.website)
         IN  IF website # <<>> /\ website \in seen
             THEN DedupLoop_noadd(records, i + 1, seen, unique)
             ELSE DedupLoop_noadd(records, i + 1, seen, Append(unique, r))

\* dedup_records, lines 784-793: the loop over records[i..], carrying seen
\* and unique.
RECURSIVE DedupLoop(_, _, _, _)
DedupLoop(records, i, seen, unique) ==
    IF i > Len(records) THEN [unique |-> unique, seen |-> seen]
    ELSE LET r == records[i]
             website == strip(r.website)
         IN  IF website # <<>>
             THEN IF website \in seen
                  THEN DedupLoop(records, i + 1, seen, unique)
                  ELSE DedupLoop(records, i + 1, seen \cup {website}, Append(unique, r))
             ELSE DedupLoop(records, i + 1, seen, Append(unique, r))

\* dedup_records with `seen` started empty instead of from the seed.
dedup_records_noseed(records, existing_websites) ==
    DedupLoop(records, 1, {}, <<>>).unique

dedup_records(records, existing_websites) ==
    DedupLoop(records, 1, existing_websites, <<>>).unique

\* The set `seen` as dedup_records leaves it when its loop ends.
dedup_seen(records, existing_websites) ==
    DedupLoop(records, 1, existing_websites, <<>>).seen

\* HasEmail without the strip.
HasEmail_nostrip(r) == r.email # <<>>

\* filter_with_email's test: (r.email or "").strip()
HasEmail(r) == strip(r.email) # <<>>

\* [r for r in records if (r.email or "").strip()]
filter_with_email(records) == SelectSeq(records, HasEmail)

\* filter_only_bad_sites's test
IsMigliorabile(r) == r.migliorabile

\* filter_only_bad_sites keeping the first improvable record only.
filter_only_bad_sites_first(records) ==
    IF SelectSeq(records, IsMigliorabile) = <<>>
    THEN <<>>
    ELSE << Head(SelectSeq(records, IsMigliorabile)) >>

\* [r for r in records if r.migliorabile]
filter_only_bad_sites(records) == SelectSeq(records, IsMigliorabile)

Min(a, b) == IF a <= b THEN a ELSE b

\* ------------------------------------------------------------ site quality
\* A page as assess_site_quality sees it: what the URL and the parsed HTML
\* answer to each of its tests.
Pages ==
    [ https        : BOOLEAN,         \* url.startswith("https://")
      viewport     : BOOLEAN,         \* <meta name="viewport">
      description  : BOOLEAN,         \* <meta name="description">
      icon         : BOOLEAN,         \* <link rel=...icon...>
      script       : {"none", "jquery-1.", "bootstrap 3."},  \* first dated script src
      tables       : {5, 6},          \* number of <table>
      divs         : {29, 30},        \* number of <div>
      html_len     : {400000, 400001},
      text_len     : {199, 200},
      title        : {"none", "empty", "short", "long"},     \* <title> and its text
      free_service : BOOLEAN,         \* wix.com, weebly.com or squarespace.com named
      framework    : BOOLEAN,         \* a script naming react, vue, angular or next
      itemtype     : BOOLEAN,
      og           : BOOLEAN,
      canonical    : BOOLEAN,
      robots       : BOOLEAN,
      itemscope    : BOOLEAN ]

\* len(title_tag.get_text(strip=True)), for a title tag that has text
title_len(page) == IF page.title = "short" THEN 9 ELSE 10

\* "; ".join(reasons)
RECURSIVE join(_)
join(reasons) ==
    IF reasons = <<>> THEN ""
    ELSE IF Len(reasons) = 1 THEN reasons[1]
    ELSE reasons[1] \o "; " \o join(Tail(reasons))

\* reasons.append(text) under a condition
reason_if(cond, text) == IF cond THEN << text >> ELSE <<>>

\* assess_site_quality, lines 427-473: the problems found, in the order of
\* the tests.
site_reasons(page) ==
    reason_if(~page.https, "assenza https")
    \o reason_if(~page.viewport, "non responsive (viewport mancante)")
    \o reason_if(~page.description, "meta description mancante")
    \o reason_if(~page.icon, "favicon assente")
    \o reason_if(page.script = "jquery-1.", "usa jquery 1.x")
    \o reason_if(page.script = "bootstrap 3.", "bootstrap datato")
    \o reason_if(page.tables > 5 /\ page.divs < 30, "layout a tabelle")
    \o reason_if(page.html_len > 400000, "pagina pesante >400KB")
    \o reason_if(page.text_len < 200, "contenuti scarsi")
    \o (IF page.title \in {"none", "empty"} THEN << "titolo mancante" >>
        ELSE IF title_len(page) < 10 THEN << "titolo troppo corto" >>
        ELSE <<>>)
    \o reason_if(page.free_service, "usa servizio gratuito")

\* sum([...]) over booleans
bool_sum(flags) ==
    Cardinality({ k \in 1..Len(flags) : flags[k] })

\* assess_site_quality, lines 476-493
positive_indicators(page) ==
    bool_sum(<< page.framework,
                page.itemtype \/ page.itemscope,
                page.og,
                page.canonical,
                page.robots >>)

\* assess_site_quality with the positive signals left out of the verdict.
assess_site_quality_problems_only(page) ==
    LET reasons == site_reasons(page)
    IN  [ migliorabile |-> Len(reasons) >= 1,
          note         |-> join(SubSeq(reasons, 1, Min(5, Len(reasons)))) ]

\* assess_site_quality: (migliorabile, note)
assess_site_quality(page) ==
    LET reasons == site_reasons(page)
    IN  [ migliorabile |-> IF positive_indicators(page) >= 3
                           THEN FALSE
                           ELSE Len(reasons) >= 1,
          note         |-> join(SubSeq(reasons, 1, Min(5, Len(reasons)))) ]

\* ------------------------------------------------------------ email choice
\* Text that choose_best_email takes apart is a sequence of characters.
UpperCase ==
    << "A", "B", "C", "D", "E", "F", "G", "H", "I", "J", "K", "L", "M",
       "N", "O", "P", "Q", "R", "S", "T", "U", "V", "W", "X", "Y", "Z", "Ì" >>

LowerCase ==
    << "a", "b", "c", "d", "e", "f", "g", "h", "i", "j", "k", "l", "m",
       "n", "o", "p", "q", "r", "s", "t", "u", "v", "w", "x", "y", "z", "ì" >>

\* str.lower()
lower(s) ==
    [k \in 1..Len(s) |->
        IF \E u \in 1..Len(UpperCase) : UpperCase[u] = s[k]
        THEN LowerCase[CHOOSE u \in 1..Len(UpperCase) : UpperCase[u] = s[k]]
        ELSE s[k]]

\* str.find(c) + 1: the first position of c in s, 0 when absent
index_of(s, c) ==
    IF \E k \in 1..Len(s) : s[k] = c
    THEN CHOOSE k \in 1..Len(s) : s[k] = c /\ \A j \in 1..(k - 1) : s[j] # c
    ELSE 0

\* str.split(sep), sep one character
RECURSIVE split(_, _)
split(s, sep) ==
    LET k == index_of(s, sep)
    IN  IF k = 0 THEN << s >>
        ELSE << SubSeq(s, 1, k - 1) >> \o split(SubSeq(s, k + 1, Len(s)), sep)

\* sub in s
contains(s, sub) ==
    \E k \in 0..(Len(s) - Len(sub)) : SubSeq(s, k + 1, k + Len(sub)) = sub

\* s.endswith(suffix)
endswith(s, suffix) ==
    /\ Len(suffix) <= Len(s)
    /\ SubSeq(s, Len(s) - Len(suffix) + 1, Len(s)) = suffix

\* urlparse(url).netloc: what follows "//" after the scheme, up to the first
\* of "/", "?" and "#".
netloc(url) ==
    LET colon == index_of(url, ":")
        rest  == IF colon > 1 THEN SubSeq(url, colon + 1, Len(url)) ELSE url
    IN  IF Len(rest) >= 2 /\ rest[1] = "/" /\ rest[2] = "/"
        THEN LET after == SubSeq(rest, 3, Len(rest))
                 stops == { k \in 1..Len(after) : after[k] \in {"/", "?", "#"} }
             IN  IF stops = {} THEN after
                 ELSE SubSeq(after, 1, (CHOOSE k \in stops : \A j \in stops : k <= j) - 1)
        ELSE <<>>

DotJs == << ".", "j", "s" >>

WixpressCom == << "w", "i", "x", "p", "r", "e", "s", "s", ".", "c", "o", "m" >>

SentryNextWixpressCom == << "s", "e", "n", "t", "r", "y", "-", "n", "e", "x", "t", ".", "w", "i", "x", "p", "r", "e", "s", "s", ".", "c", "o", "m" >>

SentryIo == << "s", "e", "n", "t", "r", "y", ".", "i", "o" >>

\* choose_best_email: blacklist_domains
blacklist_domains == { WixpressCom, SentryNextWixpressCom, SentryIo }

\* choose_best_email: common
common ==
    { << "g", "m", "a", "i", "l", ".", "c", "o", "m" >>,
      << "o", "u", "t", "l", "o", "o", "k", ".", "c", "o", "m" >>,
      << "h", "o", "t", "m", "a", "i", "l", ".", "c", "o", "m" >>,
      << "y", "a", "h", "o", "o", ".", "i", "t" >>,
      << "y", "a", "h", "o", "o", ".", "c", "o", "m" >>,
      << "v", "i", "r", "g", "i", "l", "i", "o", ".", "i", "t" >> }

\* choose_best_email: domain_of
domain_of(email) ==
    LET parts == split(lower(email), "@")
    IN  IF Len(parts) = 2 THEN parts[2] ELSE <<>>

\* choose_best_email: site_domain
site_domain(website) ==
    IF website # <<>> THEN lower(netloc(website)) ELSE <<>>

\* email_survives with the blacklist test of line 401 left out.
email_survives_no_blacklist(e) ==
    /\ e # <<>>
    /\ LET user == split(e, "@")[1]
           dom  == domain_of(e)
       IN  /\ dom # <<>>
           /\ Len(user) <= 40
           /\ ~(endswith(dom, DotJs) \/ contains(dom, DotJs) \/ contains(user, DotJs))

\* choose_best_email, lines 393-405: the candidate is not skipped.
email_survives(e) ==
    /\ e # <<>>
    /\ LET user == split(e, "@")[1]
           dom  == domain_of(e)
       IN  /\ dom # <<>>
           /\ Len(user) <= 40
           /\ ~(\/ dom \in blacklist_domains
                \/ endswith(dom, WixpressCom)
                \/ endswith(dom, SentryIo))
           /\ ~(endswith(dom, DotJs) \/ contains(dom, DotJs) \/ contains(user, DotJs))

\* choose_best_email
choose_best_email(candidates, website) ==
    IF candidates = <<>> THEN <<>>
    ELSE LET filtered == SelectSeq(candidates, email_survives)
             sd == site_domain(website)
             same_domain ==
                 SelectSeq(filtered, LAMBDA e : sd # <<>> /\ contains(sd, domain_of(e)))
             common_email == SelectSeq(filtered, LAMBDA e : domain_of(e) \in common)
         IN  IF filtered # <<>>
             THEN IF same_domain # <<>> THEN same_domain[1]
                  ELSE IF common_email # <<>> THEN common_email[1]
                  ELSE filtered[1]
             ELSE <<>>

\* n copies of the character c
Repeat(c, n) == [k \in 1..n |-> c]

\* Candidate addresses: on the site's domain, on a public provider in lower and
\* in upper case, plain, blacklisted by name and by suffix, with a ".js" marker
\* in the domain and in the local part, with a local part of 40 and of 41
\* characters, with two "@", with none, and the empty string.
EmailSite == << "i", "@", "s", ".", "i", "t" >>

EmailGmail == << "a", "@", "g", "m", "a", "i", "l", ".", "c", "o", "m" >>

EmailGmailUpper == << "A", "@", "G", "M", "A", "I", "L", ".", "C", "O", "M" >>

EmailPlain == << "c", "@", "b", ".", "c", "o" >>

EmailSentry == << "x", "@", "s", "e", "n", "t", "r", "y", ".", "i", "o" >>

EmailWixSub == << "x", "@", "o", ".", "w", "i", "x", "p", "r", "e", "s", "s", ".", "c", "o", "m" >>

EmailJsDomain == << "p", "@", "c", "d", "n", ".", "j", "s" >>

EmailJsUser == << "a", ".", "j", "s", "@", "b", ".", "c", "o" >>

EmailUser40 == Repeat("u", 40) \o << "@", "b", ".", "c", "o" >>

EmailUser41 == Repeat("u", 41) \o << "@", "b", ".", "c", "o" >>

EmailTwoAt == << "a", "@", "b", "@", "s", ".", "i", "t" >>

EmailNoAt == << "b", ".", "c", "o" >>

Emails ==
    { EmailSite, EmailGmail, EmailGmailUpper, EmailPlain, EmailSentry,
      EmailWixSub, EmailJsDomain, EmailJsUser, EmailUser40, EmailUser41,
      EmailTwoAt, EmailNoAt, <<>> }

\* The website argument: none, and a site with its host in mixed case.
UrlSite == << "h", "t", "t", "p", "s", ":", "/", "/", "w", "w", "w", ".", "S", ".", "i", "t", "/", "x" >>

EmailWebsites == { <<>>, UrlSite }

\* Candidate lists of up to MaxLen addresses.
CandidateLists ==
    UNION { [1..n -> Emails] : n \in 0..MaxLen }

\* -------------------------------------------------------------------- state
VARIABLES
    args,               \* parse_args(): the command line of this run
    queries,            \* run: what load_queries returned
    pc,                 \* where run() is
    exc,                \* the exception that left run(), "none" while it runs
    sheet,              \* the worksheet: header row, then one row per lead
    query_idx,          \* run: index into queries of the query being scraped
    cards_count,        \* scrape_query: cards the listing shows
    idx,                \* scrape_query: next listing position to extract
    card_data_list,     \* scrape_query: cards extracted so far
    tasks,              \* scrape_query: one enrichment task per card
    semaphore,          \* scrape_query: free slots of asyncio.Semaphore
    recs,               \* run: what scrape_query returned
    all_records,        \* run: the running total
    save_file,          \* the checkpoint artifact: <<>> or <<document>>
    with_email,         \* run: after filter_with_email
    bad_sites,          \* run: after filter_only_bad_sites
    existing_websites,  \* run: what load_existing_websites returned
    unique_records,     \* run: after dedup_records
    wr_pc,              \* where write_rows is
    rows,               \* write_rows: the rows to append
    current_row_count,  \* write_rows: row count read before writing
    attempt,            \* write_rows: loop variable of the retry loop
    append_calls,       \* history: outcome of each ws.append_rows call
    read_calls,         \* history: outcome of each ws.get_all_values call
    sleeps,             \* history: delay of each time.sleep call, in tenths of a second
    random_state,       \* random: the values uniform(0, 1) returns next, in tenths
    done_order,         \* history: the tasks of this batch in the order they ended
    overtaken,          \* history: queries where a task ended before an earlier card's
    reported,           \* history: the counts run has logged, <<what, count>>
    f_pc,               \* filter harness: what has been applied
    f_records,          \* filter harness: the input list
    f_seed,             \* filter harness: the input key set
    f_out,              \* filter harness: the results
    p_in,               \* function harness: the argument
    p_out,              \* function harness: the value returned
    ag_pc,              \* email_agent: where main() is
    ag_args,            \* email_agent: parse_args() of this run
    ag_ws,              \* email_agent: the worksheet as get_all_values returns it
    ag_recipients,      \* email_agent main: what load_recipients returned
    ag_i,               \* email_agent main: loop index of the send loop
    ag_success,         \* email_agent main: success_count
    ag_error,           \* email_agent main: error_count
    ag_run,             \* history: number of this email_agent run
    ag_smtp,            \* history: messages handed to SMTP in this run
    ag_last,            \* history: the last send_email call that returned True
    ag_handled,         \* history: row numbers the send loop has handled, this run
    ag_marked,          \* history: rows mark_as_sent has marked, <<run, row>>
    en_pc,              \* enrich_with_site: where it is
    en_website,         \* enrich_with_site: the website argument
    en_candidates,      \* enrich_with_site: candidates
    en_pages,           \* what a fetch of each candidate URL answers
    en_k,               \* enrich_with_site: position of the loop in candidates
    en_emails,          \* enrich_with_site: emails
    en_migliorabile,    \* enrich_with_site: migliorabile
    en_note,            \* enrich_with_site: note
    en_result,          \* enrich_with_site: what it returned, <<>> before
    en_fetches,         \* history: the URLs fetched, in order
    en_chosen           \* history: number of choose_best_email calls

cfgVars == << args, queries >>

scrapeVars == << cards_count, idx, card_data_list, tasks, semaphore >>

procVars == << with_email, bad_sites, existing_websites, unique_records >>

runVars ==
    << cfgVars, pc, exc, query_idx, scrapeVars, recs, all_records, save_file,
       procVars, done_order, overtaken, reported >>

writeVars ==
    << sheet, wr_pc, rows, current_row_count, attempt, append_calls,
       read_calls, sleeps, random_state >>

harnessVars == << f_pc, f_records, f_seed, f_out, p_in, p_out >>

agentVars ==
    << ag_pc, ag_args, ag_ws, ag_recipients, ag_i, ag_success, ag_error,
       ag_run, ag_smtp, ag_last, ag_handled, ag_marked >>

enrichVars ==
    << en_pc, en_website, en_candidates, en_pages, en_k, en_emails, en_migliorabile, en_note,
       en_result, en_fetches, en_chosen >>

sideVars == << agentVars, enrichVars >>

pureVars == << harnessVars, sideVars >>

vars == << runVars, writeVars, pureVars >>

\* --------------------------------------------------------------- the store
\* The header get_worksheet keeps in row 1.
headers ==
    << <<"E">>, "Phone", <<"W">>, "Keyword", "Nome proprietario", "Location", "Inviata" >>

\* A row a previous run left in the sheet.
PriorRow(website) ==
    << MailE, "tel", website, "k0", "", "c0", "no" >>

\* The sheets a run may find.
PriorSheets ==
    { <<headers>>, <<headers, PriorRow(SitePadA)>> }

\* ws.col_values(3)
col_values3(ws) == [i \in 1..Len(ws) |-> ws[i][3]]

\* load_existing_websites when the read succeeds: header skipped, blanks dropped.
load_existing_websites(ws) ==
    LET col == col_values3(ws)
    IN  { strip(col[i]) : i \in { j \in 2..Len(col) : col[j] # <<>> /\ strip(col[j]) # <<>> } }

\* ------------------------------------------------------------ configuration
\* load_queries(): two queries, each with its own cap.
TwoQueries ==
    << [keyword |-> "k1", city |-> "c1", max |-> 2],
       [keyword |-> "k2", city |-> "c2", max |-> 1] >>

\* load_queries(): one query whose own cap never binds.
OneQuery ==
    << [keyword |-> "k1", city |-> "c1", max |-> 9] >>

\* The command lines tried with TwoQueries.  --max-concurrent and
\* --max-per-query play no part with --load-from or after a failed check.
ArgsSet ==
    { a \in [ sheet_id       : BOOLEAN,
              load_from      : BOOLEAN,
              min_delay      : {1, 3},
              max_delay      : {2},
              max_per_query  : 1..MaxPerQuery,
              max_concurrent : 1..MaxConcurrent ] :
        (a.load_from \/ a.min_delay > a.max_delay)
            => (a.max_concurrent = 1 /\ a.max_per_query = 1) }

\* The command line tried with OneQuery: a scraping run into a sheet, with
\* more cards than slots.
OneQueryArgsSet ==
    [ sheet_id       : {TRUE},
      load_from      : {FALSE},
      min_delay      : {1},
      max_delay      : {2},
      max_per_query  : {MaxTasks},
      max_concurrent : {MaxConcurrent} ]

\* Websites a listing card may carry (the href of its site link).
Websites == { NoText, SiteA, SiteB }

\* SiteResults with the empty website treated as any other.
SiteResults_always_fetch(website) ==
    { [email |-> NoText, migliorabile |-> FALSE, note |-> ""],
      [email |-> NoText, migliorabile |-> TRUE,  note |-> "assenza https"],
      [email |-> MailE,  migliorabile |-> FALSE, note |-> ""],
      [email |-> MailE,  migliorabile |-> TRUE,  note |-> "assenza https"] }

\* What enrich_with_site can return for a website, by what its pages hold:
\* (email, migliorabile, note).  An empty website has no page to fetch.
SiteResults(website) ==
    IF website = <<>>
    THEN { [email |-> NoText, migliorabile |-> FALSE, note |-> ""] }
    ELSE { [email |-> NoText, migliorabile |-> FALSE, note |-> ""],
           [email |-> NoText, migliorabile |-> TRUE,  note |-> "assenza https"],
           [email |-> MailE,  migliorabile |-> FALSE, note |-> ""],
           [email |-> MailE,  migliorabile |-> TRUE,  note |-> "assenza https"] }

\* BusinessRecord.to_dict
to_dict(r) ==
    [ query            |-> r.query,
      business_keyword |-> r.business_keyword,
      city             |-> r.city,
      name             |-> r.name,
      category         |-> r.category,
      address          |-> r.address,
      phone            |-> r.phone,
      website          |-> r.website,
      email            |-> r.email,
      rating           |-> r.rating,
      reviews          |-> r.reviews,
      migliorabile     |-> r.migliorabile,
      note             |-> r.note,
      timestamp        |-> r.timestamp ]

\* save_records_to_json: the document written over the checkpoint file.
save_records_to_json(records) ==
    << [ timestamp     |-> "t",
         total_records |-> Len(records),
         records       |-> [i \in 1..Len(records) |-> to_dict(records[i])] ] >>

\* json.dump / json.load on the document: a Python str becomes a JSON string
\* and back, a bool becomes the literal true or false and back, the int stays
\* a number.  "migliorabile" is the one boolean key of a record.
json_dump_value(k, v) ==
    IF k = "migliorabile"
    THEN [ literal |-> IF v THEN "true" ELSE "false" ]
    ELSE [ string |-> v ]

json_load_value(j) ==
    IF "literal" \in DOMAIN j THEN j.literal = "true" ELSE j.string

json_dump(data) ==
    [ timestamp     |-> [ string |-> data.timestamp ],
      total_records |-> data.total_records,
      records       |-> [i \in 1..Len(data.records) |->
                            [k \in DOMAIN data.records[i] |->
                                json_dump_value(k, data.records[i][k])]] ]

json_load(text) ==
    [ timestamp     |-> json_load_value(text.timestamp),
      total_records |-> text.total_records,
      records       |-> [i \in 1..Len(text.records) |->
                            [k \in DOMAIN text.records[i] |->
                                json_load_value(text.records[i][k])]] ]

\* dict.get(key, default).
get(data, key, default) == IF key \in DOMAIN data THEN data[key] ELSE default

\* from_dict reading no "email" key.
from_dict_no_email(data) ==
    [ query            |-> get(data, "query", ""),
      business_keyword |-> get(data, "business_keyword", ""),
      city             |-> get(data, "city", ""),
      name             |-> get(data, "name", ""),
      category         |-> get(data, "category", ""),
      address          |-> get(data, "address", ""),
      phone            |-> get(data, "phone", ""),
      website          |-> get(data, "website", NoText),
      email            |-> NoText,
      rating           |-> get(data, "rating", ""),
      reviews          |-> get(data, "reviews", ""),
      migliorabile     |-> get(data, "migliorabile", FALSE),
      note             |-> get(data, "note", ""),
      timestamp        |-> get(data, "timestamp", "") ]

from_dict(data) ==
    [ query            |-> get(data, "query", ""),
      business_keyword |-> get(data, "business_keyword", ""),
      city             |-> get(data, "city", ""),
      name             |-> get(data, "name", ""),
      category         |-> get(data, "category", ""),
      address          |-> get(data, "address", ""),
      phone            |-> get(data, "phone", ""),
      website          |-> get(data, "website", NoText),
      email            |-> get(data, "email", NoText),
      rating           |-> get(data, "rating", ""),
      reviews          |-> get(data, "reviews", ""),
      migliorabile     |-> get(data, "migliorabile", FALSE),
      note             |-> get(data, "note", ""),
      timestamp        |-> get(data, "timestamp", "") ]

\* load_records_from_json: the records of the file's document, in its order.
load_records_from_json(text) ==
    LET data    == json_load(text)
        entries == get(data, "records", <<>>)
    IN  [i \in 1..Len(entries) |-> from_dict(entries[i])]

\* Records an earlier scraping run can have checkpointed, for --load-from.
LoadCard(i, website) ==
    scrape_card_basic(TwoQueries[1], i, website)

LoadableRecords(i) ==
    UNION { { BusinessRecord(LoadCard(i, w), o.email, o.migliorabile, o.note, "t") :
                o \in SiteResults(w) } : w \in Websites }

LoadableLists ==
    UNION { { l \in [1..n -> UNION { LoadableRecords(i) : i \in 1..n }] :
                \A i \in 1..n : l[i] \in LoadableRecords(i) }
            : n \in 0..MaxLoad }

\* ------------------------------------------------------------ load_queries
\* The characters of a str as one string.
RECURSIVE as_text(_)
as_text(s) == IF s = <<>> THEN "" ELSE s[1] \o as_text(Tail(s))

\* load_queries, lines 153-166: the entries with a keyword and a city, in
\* order, both stripped, each with its own max or the fallback.  A key that is
\* absent and a value that is empty both make `item.get(key) or ""` empty.
RECURSIVE load_queries(_, _)
load_queries(items, fallback_max) ==
    IF items = <<>> THEN <<>>
    ELSE LET item == Head(items)
             keyword == get(item, "keyword", <<>>)
             city == get(item, "city", <<>>)
         IN  IF keyword = <<>> \/ city = <<>>
             THEN load_queries(Tail(items), fallback_max)
             ELSE << [ keyword |-> as_text(strip(keyword)),
                       city    |-> as_text(strip(city)),
                       max     |-> get(item, "max", fallback_max) ] >>
                  \o load_queries(Tail(items), fallback_max)

\* Entries of a queries file: complete with a max above every global cap,
\* padded and without max, with a small max, without city, with an empty
\* keyword, with a blank keyword.
ItemFull == [ keyword |-> <<"k", "1">>, city |-> <<"c", "1">>, max |-> 5 ]

ItemNoMax == [ keyword |-> <<" ", "k", "2">>, city |-> <<"c", "2", " ">> ]

ItemSmall == [ keyword |-> <<"k", "3">>, city |-> <<"c", "3">>, max |-> 1 ]

ItemNoCity == [ keyword |-> <<"k", "4">>, max |-> 1 ]

ItemEmptyKeyword == [ keyword |-> <<>>, city |-> <<"c", "5">> ]

ItemBlankKeyword == [ keyword |-> <<" ">>, city |-> <<"c", "6">>, max |-> 1 ]

\* The queries files tried.
QueryFiles ==
    { << ItemFull, ItemNoCity, ItemSmall >>,
      << ItemEmptyKeyword, ItemNoMax >>,
      << ItemBlankKeyword >>,
      << ItemNoCity, ItemEmptyKeyword >> }

\* ------------------------------------------------------------------ run()
\* run, lines 817-827 and 832-852: the queries are loaded from the file, the
\* checks are made, and the loop over the queries starts, or is skipped when
\* there is none.
RunLoadQueries ==
    /\ pc = "start"
    /\ f_pc = "queries_file"
    /\ queries' = load_queries(p_in, args.max_per_query)
    /\ f_pc' = "queries"
    /\ IF args.min_delay > args.max_delay
       THEN pc' = "raised" /\ exc' = "ValueError"
       ELSE IF ~args.load_from /\ ~args.sheet_id
            THEN pc' = "raised" /\ exc' = "ValueError"
            ELSE /\ pc' = IF args.load_from THEN "load"
                          ELSE IF queries' = <<>> THEN "final_save" ELSE "navigate"
                 /\ exc' = exc
    /\ UNCHANGED << args, overtaken, done_order, reported, query_idx, scrapeVars, recs, all_records,
                    save_file, procVars, writeVars, f_records, f_seed, f_out, p_in,
                    p_out, sideVars >>

\* RunValidate without the check of lines 826-827.
RunValidate_no_sheet_check ==
    /\ pc = "start"
    /\ IF args.min_delay > args.max_delay
       THEN pc' = "raised" /\ exc' = "ValueError"
       ELSE /\ pc' = IF args.load_from THEN "load" ELSE "navigate"
            /\ exc' = exc
    /\ UNCHANGED << cfgVars, overtaken, done_order, reported, query_idx, scrapeVars, recs, all_records,
                    save_file, procVars, writeVars, pureVars >>

\* Lines 817-827: the checks made before any work.
RunValidate ==
    /\ pc = "start"
    /\ IF args.min_delay > args.max_delay
       THEN pc' = "raised" /\ exc' = "ValueError"
       ELSE IF ~args.load_from /\ ~args.sheet_id
            THEN pc' = "raised" /\ exc' = "ValueError"
            ELSE /\ pc' = IF args.load_from THEN "load" ELSE "navigate"
                 /\ exc' = exc
    /\ UNCHANGED << cfgVars, overtaken, done_order, reported, query_idx, scrapeVars, recs, all_records,
                    save_file, procVars, writeVars, pureVars >>

\* Lines 837-839: --load-from replaces scraping; the file may be unreadable.
RunLoadFrom ==
    /\ pc = "load"
    /\ \/ \E l \in LoadableLists :
            /\ all_records' = l
            /\ pc' = "process"
            /\ exc' = exc
       \/ /\ pc' = "raised"
          /\ exc' = "OSError"
          /\ all_records' = all_records
    /\ UNCHANGED << cfgVars, overtaken, done_order, reported, query_idx, scrapeVars, recs, save_file, procVars,
                    writeVars, pureVars >>

\* target without the clamp to --max-per-query.
target_own_max(q) == q.max

\* scrape_query, line 666
target(q) == Min(q.max, args.max_per_query)

\* scrape_query, lines 663-675: navigation, which may time out, and the count
\* of cards the listing shows.
ScrapeNavigate ==
    /\ pc = "navigate"
    /\ \/ \E n \in 0..MaxListed :
            /\ cards_count' = n
            /\ idx' = 0
            /\ card_data_list' = <<>>
            /\ pc' = "extract"
            /\ exc' = exc
       \/ /\ pc' = "raised"
          /\ exc' = "TimeoutError"
          /\ UNCHANGED << cards_count, idx, card_data_list >>
    /\ UNCHANGED << cfgVars, overtaken, done_order, reported, query_idx, tasks, semaphore, recs, all_records,
                    save_file, procVars, writeVars, pureVars >>

\* scrape_query, lines 680-687: one turn of the sequential extraction loop;
\* scrape_card_basic returns a card or None.
ScrapeExtractCard ==
    /\ pc = "extract"
    /\ idx < Min(target(queries[query_idx]), cards_count)
    /\ idx' = idx + 1
    /\ \/ \E w \in Websites :
            card_data_list' =
                Append(card_data_list, scrape_card_basic(queries[query_idx], idx + 1, w))
       \/ card_data_list' = card_data_list
    /\ UNCHANGED << cfgVars, overtaken, done_order, reported, pc, exc, query_idx, cards_count, tasks, semaphore,
                    recs, all_records, save_file, procVars, writeVars, pureVars >>

\* ScrapeStartEnrich as with a semaphore of at least one slot.
ScrapeStartEnrich_min_one ==
    /\ pc = "extract"
    /\ idx >= Min(target(queries[query_idx]), cards_count)
    /\ IF card_data_list # <<>>
       THEN /\ semaphore' = IF args.max_concurrent < 1 THEN 1 ELSE args.max_concurrent
            /\ tasks' = [i \in 1..Len(card_data_list) |-> [st |-> "waiting", res |-> <<>>, fetched |-> FALSE]]
            /\ pc' = "gather"
            /\ recs' = recs
       ELSE /\ recs' = <<>>
            /\ pc' = "aggregate"
            /\ UNCHANGED << semaphore, tasks >>
    /\ UNCHANGED << cfgVars, overtaken, done_order, reported, exc, query_idx, cards_count, idx, card_data_list,
                    all_records, save_file, procVars, writeVars, pureVars >>

\* scrape_query, lines 690-694 and 711: the semaphore and one task per card,
\* or the empty list when no card was extracted.
ScrapeStartEnrich ==
    /\ pc = "extract"
    /\ idx >= Min(target(queries[query_idx]), cards_count)
    /\ IF card_data_list # <<>>
       THEN /\ semaphore' = args.max_concurrent
            /\ tasks' = [i \in 1..Len(card_data_list) |-> [st |-> "waiting", res |-> <<>>, fetched |-> FALSE]]
            /\ pc' = "gather"
            /\ recs' = recs
       ELSE /\ recs' = <<>>
            /\ pc' = "aggregate"
            /\ UNCHANGED << semaphore, tasks >>
    /\ UNCHANGED << cfgVars, overtaken, done_order, reported, exc, query_idx, cards_count, idx, card_data_list,
                    all_records, save_file, procVars, writeVars, pureVars >>

\* TaskAcquire with the admission test left out.
TaskAcquire_ungated(i) ==
    /\ pc = "gather"
    /\ tasks[i].st = "waiting"
    /\ semaphore' = semaphore - 1
    /\ tasks' = [tasks EXCEPT ![i].st = "running"]
    /\ UNCHANGED << cfgVars, overtaken, done_order, reported, pc, exc, query_idx, cards_count, idx,
                    card_data_list, recs, all_records, save_file, procVars,
                    writeVars, pureVars >>

\* enrich_card_with_site, line 618: a task enters `async with semaphore`,
\* which admits it only while a slot is free.  Waiting tasks are admitted in
\* any order.
TaskAcquire(i) ==
    /\ pc = "gather"
    /\ tasks[i].st = "waiting"
    /\ semaphore > 0
    /\ semaphore' = semaphore - 1
    /\ tasks' = [tasks EXCEPT ![i].st = "running"]
    /\ UNCHANGED << cfgVars, overtaken, done_order, reported, pc, exc, query_idx, cards_count, idx,
                    card_data_list, recs, all_records, save_file, procVars,
                    writeVars, pureVars >>

\* TaskFinish as if a task that ends with an exception kept its slot.
TaskFinish_leak(i) ==
    /\ pc = "gather"
    /\ tasks[i].st = "running"
    /\ done_order' = Append(done_order, i)
    /\ LET card == card_data_list[i]
           fetched == card.website # <<>>
       IN  \/ /\ \E o \in SiteResults(card.website) :
                    tasks' = [tasks EXCEPT ![i] =
                        [st |-> "done",
                         res |-> << BusinessRecord(card, o.email, o.migliorabile, o.note, "t") >>,
                         fetched |-> fetched]]
              /\ semaphore' = semaphore + 1
           \/ /\ card.website # <<>>
              /\ tasks' = [tasks EXCEPT ![i] =
                    [st |-> "failed", res |-> <<>>, fetched |-> fetched]]
              /\ semaphore' = semaphore
    /\ UNCHANGED << cfgVars, overtaken, reported, pc, exc, query_idx, cards_count, idx,
                    card_data_list, recs, all_records, save_file, procVars,
                    writeVars, pureVars >>

\* enrich_card_with_site, lines 619-652: the task ends inside the gated
\* section, with its record or with an exception raised while its website
\* was fetched and parsed; leaving `async with` releases the slot either way.
TaskFinish(i) ==
    /\ pc = "gather"
    /\ tasks[i].st = "running"
    /\ semaphore' = semaphore + 1
    /\ done_order' = Append(done_order, i)
    /\ LET card == card_data_list[i]
           fetched == card.website # <<>>
       IN  \/ \E o \in SiteResults(card.website) :
                tasks' = [tasks EXCEPT ![i] =
                    [st |-> "done",
                     res |-> << BusinessRecord(card, o.email, o.migliorabile, o.note, "t") >>,
                     fetched |-> fetched]]
           \/ /\ card.website # <<>>
              /\ tasks' = [tasks EXCEPT ![i] =
                    [st |-> "failed", res |-> <<>>, fetched |-> fetched]]
    /\ UNCHANGED << cfgVars, overtaken, reported, pc, exc, query_idx, cards_count, idx,
                    card_data_list, recs, all_records, save_file, procVars,
                    writeVars, pureVars >>

\* valid_records as if gather returned its results in the order the tasks ended.
valid_records_as_completed(results, i) ==
    LET ended == SelectSeq(done_order, LAMBDA k : results[k].st = "done")
    IN  [j \in 1..Len(ended) |-> results[ended[j]].res[1]]

\* scrape_query, lines 697-709: the results of gather in task order, the
\* exceptions left out.
RECURSIVE valid_records(_, _)
valid_records(results, i) ==
    IF i > Len(results) THEN <<>>
    ELSE IF results[i].st = "failed"
         THEN valid_records(results, i + 1)
         ELSE results[i].res \o valid_records(results, i + 1)

\* ScrapeGatherReturn as with a wait that returns when the first task has ended.
ScrapeGatherReturn_first_completed ==
    /\ pc = "gather"
    /\ \E i \in 1..Len(tasks) : tasks[i].st \in {"done", "failed"}
    /\ recs' = valid_records(tasks, 1)
    /\ pc' = "aggregate"
    /\ UNCHANGED << cfgVars, overtaken, done_order, reported, exc, query_idx, scrapeVars, all_records,
                    save_file, procVars, writeVars, pureVars >>

\* ScrapeGatherReturn as with a gather that re-raises a task's exception.
ScrapeGatherReturn_abort ==
    /\ pc = "gather"
    /\ \/ /\ \A i \in 1..Len(tasks) : tasks[i].st = "done"
          /\ recs' = valid_records(tasks, 1)
          /\ pc' = "aggregate"
          /\ exc' = exc
       \/ /\ \E i \in 1..Len(tasks) : tasks[i].st = "failed"
          /\ recs' = recs
          /\ pc' = "raised"
          /\ exc' = "Exception"
    /\ UNCHANGED << cfgVars, overtaken, done_order, reported, query_idx, scrapeVars, all_records, save_file,
                    procVars, writeVars, pureVars >>

\* scrape_query, lines 694-709: gather(return_exceptions=True) returns once
\* every task has ended, and the exceptions among its results are dropped.
ScrapeGatherReturn ==
    /\ pc = "gather"
    /\ \A i \in 1..Len(tasks) : tasks[i].st \in {"done", "failed"}
    /\ recs' = valid_records(tasks, 1)
    /\ pc' = "aggregate"
    /\ UNCHANGED << cfgVars, overtaken, done_order, reported, exc, query_idx, scrapeVars, all_records,
                    save_file, procVars, writeVars, pureVars >>

\* RunAggregate with the checkpoint written from the last query's records only.
RunAggregate_save_batch ==
    /\ pc = "aggregate"
    /\ all_records' = all_records \o recs
    /\ save_file' = IF all_records' # <<>>
                    THEN save_records_to_json(recs)
                    ELSE save_file
    /\ IF query_idx < Len(queries)
       THEN query_idx' = query_idx + 1 /\ pc' = "navigate"
       ELSE query_idx' = query_idx /\ pc' = "final_save"
    /\ cards_count' = 0
    /\ idx' = 0
    /\ card_data_list' = <<>>
    /\ tasks' = <<>>
    /\ semaphore' = 0
    /\ done_order' = <<>>
    /\ overtaken' = IF \E a, b \in 1..Len(done_order) : a < b /\ done_order[a] > done_order[b]
                    THEN overtaken \cup {query_idx}
                    ELSE overtaken
    /\ UNCHANGED << cfgVars, reported, exc, recs, procVars, writeVars, pureVars >>

\* run, lines 863-873: the running total grows and is checkpointed, then the
\* next query starts or the loop ends.  scrape_query has returned: its locals
\* are gone.
RunAggregate ==
    /\ pc = "aggregate"
    /\ all_records' = all_records \o recs
    /\ save_file' = IF all_records' # <<>>
                    THEN save_records_to_json(all_records')
                    ELSE save_file
    /\ IF query_idx < Len(queries)
       THEN query_idx' = query_idx + 1 /\ pc' = "navigate"
       ELSE query_idx' = query_idx /\ pc' = "final_save"
    /\ cards_count' = 0
    /\ idx' = 0
    /\ card_data_list' = <<>>
    /\ tasks' = <<>>
    /\ semaphore' = 0
    /\ done_order' = <<>>
    /\ overtaken' = IF \E a, b \in 1..Len(done_order) : a < b /\ done_order[a] > done_order[b]
                    THEN overtaken \cup {query_idx}
                    ELSE overtaken
    /\ UNCHANGED << cfgVars, reported, exc, recs, procVars, writeVars, pureVars >>

\* run, lines 874-880: the final save after the browser is closed.
RunFinalSave ==
    /\ pc = "final_save"
    /\ save_file' = IF all_records # <<>>
                    THEN save_records_to_json(all_records)
                    ELSE save_file
    /\ pc' = "process"
    /\ UNCHANGED << cfgVars, overtaken, done_order, reported, exc, query_idx, scrapeVars, recs, all_records,
                    procVars, writeVars, pureVars >>

\* run, lines 887-896 and 920-925: the total and the count after each of the
\* two acceptance filters are logged, and what follows is chosen.
RunProcess ==
    /\ pc = "process"
    /\ IF all_records # <<>>
       THEN /\ with_email' = filter_with_email(all_records)
            /\ bad_sites' = filter_only_bad_sites(with_email')
            /\ reported' = reported \o << << "total", Len(all_records) >>,
                                          << "with_email", Len(with_email') >>,
                                          << "bad_sites", Len(bad_sites') >> >>
            /\ pc' = IF bad_sites' # <<>> /\ args.sheet_id THEN "connect" ELSE "done"
       ELSE /\ pc' = "done"
            /\ reported' = Append(reported, << "total", 0 >>)
            /\ UNCHANGED << with_email, bad_sites >>
    /\ UNCHANGED << cfgVars, overtaken, done_order, exc, query_idx, scrapeVars, recs, all_records,
                    save_file, existing_websites, unique_records, writeVars,
                    pureVars >>

\* run, lines 900-903: build_gspread_client raises ValueError without
\* credentials and get_worksheet raises when the sheet cannot be opened;
\* otherwise the worksheet, header in row 1, is at hand.
RunConnect ==
    /\ pc = "connect"
    /\ \/ pc' = "load_existing" /\ exc' = exc
       \/ pc' = "raised" /\ exc' = "ValueError"
       \/ pc' = "raised" /\ exc' = "APIError"
    /\ UNCHANGED << cfgVars, overtaken, done_order, reported, query_idx, scrapeVars, recs, all_records,
                    save_file, procVars, writeVars, pureVars >>

\* RunLoadExisting as if a failed column read left run with its exception.
RunLoadExisting_raises ==
    /\ pc = "load_existing"
    /\ \/ /\ existing_websites' = load_existing_websites(sheet)
          /\ pc' = "dedup"
          /\ exc' = exc
       \/ /\ existing_websites' = existing_websites
          /\ pc' = "raised"
          /\ exc' = "APIError"
    /\ UNCHANGED << cfgVars, overtaken, done_order, reported, query_idx, scrapeVars, recs, all_records,
                    save_file, with_email, bad_sites, unique_records,
                    writeVars, pureVars >>

\* run, lines 904-905, with load_existing_websites, lines 213-219: a failed
\* column read gives the empty set.
RunLoadExisting ==
    /\ pc = "load_existing"
    /\ \/ existing_websites' = load_existing_websites(sheet)
       \/ existing_websites' = {}
    /\ pc' = "dedup"
    /\ UNCHANGED << cfgVars, overtaken, done_order, reported, exc, query_idx, scrapeVars, recs, all_records,
                    save_file, with_email, bad_sites, unique_records,
                    writeVars, pureVars >>

\* RunDedup calling write_rows whatever dedup left.
RunDedup_always_write ==
    /\ pc = "dedup"
    /\ unique_records' = dedup_records(bad_sites, existing_websites)
    /\ reported' = Append(reported, << "unique", Len(unique_records') >>)
    /\ pc' = "write"
    /\ UNCHANGED << cfgVars, overtaken, done_order, exc, query_idx, scrapeVars, recs, all_records,
                    save_file, with_email, bad_sites, existing_websites,
                    writeVars, pureVars >>

\* RunDedup with the dedup step forgotten.
RunDedup_skipped ==
    /\ pc = "dedup"
    /\ unique_records' = bad_sites
    /\ reported' = Append(reported, << "unique", Len(unique_records') >>)
    /\ pc' = IF unique_records' # <<>> THEN "write" ELSE "done"
    /\ UNCHANGED << cfgVars, overtaken, done_order, exc, query_idx, scrapeVars, recs, all_records,
                    save_file, with_email, bad_sites, existing_websites,
                    writeVars, pureVars >>

\* RunDedup as the other ordering: dedup over every record, acceptance after.
RunDedup_before_accept ==
    /\ pc = "dedup"
    /\ unique_records' =
            filter_only_bad_sites(
                filter_with_email(dedup_records(all_records, existing_websites)))
    /\ reported' = Append(reported, << "unique", Len(unique_records') >>)
    /\ pc' = IF unique_records' # <<>> THEN "write" ELSE "done"
    /\ UNCHANGED << cfgVars, overtaken, done_order, exc, query_idx, scrapeVars, recs, all_records,
                    save_file, with_email, bad_sites, existing_websites,
                    writeVars, pureVars >>

\* run, lines 908-919: dedup of the accepted records, whose count is logged,
\* then write_rows when something is left.
RunDedup ==
    /\ pc = "dedup"
    /\ unique_records' = dedup_records(bad_sites, existing_websites)
    /\ reported' = Append(reported, << "unique", Len(unique_records') >>)
    /\ pc' = IF unique_records' # <<>> THEN "write" ELSE "done"
    /\ UNCHANGED << cfgVars, overtaken, done_order, exc, query_idx, scrapeVars, recs, all_records,
                    save_file, with_email, bad_sites, existing_websites,
                    writeVars, pureVars >>

\* ------------------------------------------------------------ write_rows
\* Lines 736-752: the rows, the early return on none, and the row count read
\* before writing, 1 when that read fails.
WriteRowsPrepare ==
    /\ pc = "write"
    /\ wr_pc = "idle"
    /\ rows' = [i \in 1..Len(unique_records) |-> to_row(unique_records[i])]
    /\ IF rows' = <<>>
       THEN /\ wr_pc' = "returned"
            /\ UNCHANGED << current_row_count, read_calls >>
       ELSE /\ wr_pc' = "append"
            /\ \/ /\ current_row_count' = Len(sheet)
                  /\ read_calls' = Append(read_calls, "ok")
               \/ /\ current_row_count' = 1
                  /\ read_calls' = Append(read_calls, "error")
    /\ attempt' = 0
    /\ UNCHANGED << sheet, append_calls, sleeps, random_state, runVars, pureVars >>

\* Line 775, random.uniform(0, 1): its least, a middle and its greatest
\* value, in tenths of a second.
uniform_0_1 == {0, 5, 10}

\* The states of the generator: the values it returns, in turn.
RandomStates == [1..4 -> uniform_0_1]

\* random.uniform(0, 1) in generator state s, and the state it leaves.
uniform(s) == Head(s)

advance(s) == Append(Tail(s), Head(s))

\* delay as with a wait that grows by base_delay at each attempt.
delay_linear(k, jitter) == 10 * base_delay * (k + 1) + jitter

\* Line 775: delay = base_delay * (2 ** attempt) + random.uniform(0, 1), in
\* tenths of a second.
delay(k, jitter) == 10 * base_delay * (2 ^ k) + jitter

\* WriteRowsAppend with the `return` after a successful append left out.
WriteRowsAppend_noreturn ==
    /\ wr_pc = "append"
    /\ \/ /\ sheet' = sheet \o rows
          /\ append_calls' = Append(append_calls, "ok")
          /\ wr_pc' = IF attempt < max_retries - 1 THEN "sleep" ELSE "returned"
          /\ sleeps' = sleeps
          /\ random_state' = random_state
       \/ /\ sheet' = sheet
          /\ append_calls' = Append(append_calls, "error")
          /\ IF attempt < max_retries - 1
             THEN /\ wr_pc' = "sleep"
                  /\ sleeps' = Append(sleeps, delay(attempt, uniform(random_state)))
                  /\ random_state' = advance(random_state)
             ELSE /\ wr_pc' = "raised"
                  /\ sleeps' = sleeps
                  /\ random_state' = random_state
    /\ UNCHANGED << rows, current_row_count, attempt, read_calls, runVars,
                    pureVars >>

\* Lines 758-761 and 772-780: one ws.append_rows call.  It appends every row
\* or raises having appended none; the exception is retried after a sleep
\* while attempt < max_retries - 1 and re-raised otherwise.
WriteRowsAppend ==
    /\ wr_pc = "append"
    /\ \/ /\ sheet' = sheet \o rows
          /\ append_calls' = Append(append_calls, "ok")
          /\ wr_pc' = "verify"
          /\ sleeps' = sleeps
          /\ random_state' = random_state
       \/ /\ sheet' = sheet
          /\ append_calls' = Append(append_calls, "error")
          /\ IF attempt < max_retries - 1
             THEN /\ wr_pc' = "sleep"
                  /\ sleeps' = Append(sleeps, delay(attempt, uniform(random_state)))
                  /\ random_state' = advance(random_state)
             ELSE /\ wr_pc' = "raised"
                  /\ sleeps' = sleeps
                  /\ random_state' = random_state
    /\ UNCHANGED << rows, current_row_count, attempt, read_calls, runVars,
                    pureVars >>

\* Line 777 and the loop header: time.sleep(delay) ends, the next attempt.
WriteRowsSleep ==
    /\ wr_pc = "sleep"
    /\ attempt' = attempt + 1
    /\ wr_pc' = "append"
    /\ UNCHANGED << sheet, rows, current_row_count, append_calls, read_calls,
                    sleeps, random_state, runVars, pureVars >>

\* WriteRowsVerify without its own try/except: the read-back's exception is
\* caught by the handler of the retry loop.
WriteRowsVerify_uncaught ==
    /\ wr_pc = "verify"
    /\ \/ /\ read_calls' = Append(read_calls, "ok")
          /\ wr_pc' = "returned"
       \/ /\ read_calls' = Append(read_calls, "error")
          /\ wr_pc' = IF attempt < max_retries - 1 THEN "sleep" ELSE "raised"
    /\ UNCHANGED << sheet, rows, current_row_count, attempt, append_calls,
                    sleeps, random_state, runVars, pureVars >>

\* Lines 764-771: the read-back after a successful append; its exception is
\* caught and logged, and write_rows returns.
WriteRowsVerify ==
    /\ wr_pc = "verify"
    /\ \/ read_calls' = Append(read_calls, "ok")
       \/ read_calls' = Append(read_calls, "error")
    /\ wr_pc' = "returned"
    /\ UNCHANGED << sheet, rows, current_row_count, attempt, append_calls,
                    sleeps, random_state, runVars, pureVars >>

\* run, lines 916-932: write_rows has returned, or its exception leaves run.
RunAfterWrite ==
    /\ pc = "write"
    /\ wr_pc \in {"returned", "raised"}
    /\ IF wr_pc = "returned"
       THEN /\ pc' = "done"
            /\ exc' = exc
            /\ reported' = Append(reported, << "written", Len(unique_records) >>)
       ELSE /\ pc' = "raised"
            /\ exc' = "APIError"
            /\ reported' = reported
    /\ UNCHANGED << cfgVars, overtaken, done_order, query_idx, scrapeVars, recs, all_records,
                    save_file, procVars, writeVars, pureVars >>

\* ------------------------------------------------------- the filter harness
\* The filters applied to record lists drawn from small sets.
FilterRecord(i, d) ==
    BusinessRecord(scrape_card_basic(TwoQueries[1], i, d[1]), d[2], d[3],
                   IF d[3] THEN "assenza https" ELSE "", "t")

ListsOver(data) ==
    UNION { { [i \in 1..n |-> FilterRecord(i, d[i])] : d \in [1..n -> data] }
            : n \in 0..MaxLen }

\* Input data (website, email, migliorabile): the website varied over empty,
\* blank, plain and padded; the email and the verdict varied.
FilterData ==
    { <<w, MailE, TRUE>> : w \in {NoText, Blank, SiteA, SitePadA, SiteB} }
    \cup { <<SiteA, e, m>> : e \in {NoText, Blank, MailE}, m \in BOOLEAN }

FilterInputs == ListsOver(FilterData)

\* Key sets as load_existing_websites returns them: stripped, none empty.
Seeds == SUBSET {SiteA, SiteB}

PureDedup ==
    /\ f_pc = "input"
    /\ f_pc' = "dedup"
    /\ f_out' = [ unique |-> dedup_records(f_records, f_seed),
                  seen   |-> dedup_seen(f_records, f_seed) ]
    /\ UNCHANGED << f_records, f_seed, p_in, p_out, sideVars, runVars, writeVars >>

\* dedup_records once more over the same list, seeded with the first run's seen.
PureDedupAgain ==
    /\ f_pc = "dedup"
    /\ f_pc' = "dedup_again"
    /\ f_out' = [ unique |-> f_out.unique,
                  seen   |-> f_out.seen,
                  again  |-> dedup_records(f_records, f_out.seen) ]
    /\ UNCHANGED << f_records, f_seed, p_in, p_out, sideVars, runVars, writeVars >>

\* The acceptance filter as run applies it, lines 891 and 895.
PureAccept ==
    /\ f_pc = "input"
    /\ f_pc' = "accept"
    /\ f_out' = [ accepted |-> filter_only_bad_sites(filter_with_email(f_records)) ]
    /\ UNCHANGED << f_records, f_seed, p_in, p_out, sideVars, runVars, writeVars >>

\* The two acceptance filters applied in both orders.
PureBothOrders ==
    /\ f_pc = "input"
    /\ f_pc' = "both_orders"
    /\ f_out' = [ email_first   |-> filter_only_bad_sites(filter_with_email(f_records)),
                  quality_first |-> filter_with_email(filter_only_bad_sites(f_records)) ]
    /\ UNCHANGED << f_records, f_seed, p_in, p_out, sideVars, runVars, writeVars >>

\* save_records_to_json to a file, then load_records_from_json of that file.
PureRoundTrip ==
    /\ f_pc = "input"
    /\ f_pc' = "loaded"
    /\ f_out' = LET text == json_dump(save_records_to_json(f_records)[1])
                IN  [ file |-> text, loaded |-> load_records_from_json(text) ]
    /\ UNCHANGED << f_records, f_seed, p_in, p_out, sideVars, runVars, writeVars >>

\* assess_site_quality applied to the page drawn.
PureAssess ==
    /\ f_pc = "page"
    /\ f_pc' = "assessed"
    /\ p_out' = assess_site_quality(p_in)
    /\ UNCHANGED << f_records, f_seed, f_out, p_in, sideVars, runVars, writeVars >>

\* choose_best_email applied to the candidates and website drawn.
PureChoose ==
    /\ f_pc = "emails"
    /\ f_pc' = "chosen"
    /\ p_out' = choose_best_email(p_in.candidates, p_in.website)
    /\ UNCHANGED << f_records, f_seed, f_out, p_in, sideVars, runVars, writeVars >>


\* -------------------------------------------------------------- email agent
\* src/email_agent.py.  Cells of the worksheet are character sequences.
MaxRows == 2

MaxRuns == 2

MaxEmails == 1

Inviata == << "I", "n", "v", "i", "a", "t", "a" >>

\* The header row the scraper keeps, scraper.py line 202.
AgentHeader ==
    << << "E", "m", "a", "i", "l" >>,
       << "P", "h", "o", "n", "e" >>,
       << "W", "e", "b", "s", "i", "t", "e" >>,
       << "K", "e", "y", "w", "o", "r", "d" >>,
       << "N", "o", "m", "e", " ", "p", "r", "o", "p", "r", "i", "e", "t", "a", "r", "i", "o" >>,
       << "L", "o", "c", "a", "t", "i", "o", "n" >>,
       Inviata >>

\* What the sent column can hold: the scraper's "no", what mark_as_sent
\* writes, "Si" padded and in upper case, and nothing.
MarkNo == << "n", "o" >>

MarkSi == << "S", "ì" >>

MarkSiPad == << " ", "S", "I", " " >>

\* Line 210: the values load_recipients takes for "already sent".
sent_values ==
    { << "s", "ì" >>, << "s", "i" >>, << "y", "e", "s" >>, << "y" >>, << "1" >>,
      << "t", "r", "u", "e" >> }

\* A data row in the scraper's column order (to_row): email, phone, website,
\* keyword, owner name, location, sent marker.
AgentRow(email, marker) ==
    << email, << "t", "e", "l" >>, SiteA, << "k" >>, <<>>, << "c" >>, marker >>

\* A row of fewer than 6 cells.
RowShort == << EmailPlain, << "t", "e", "l" >> >>

AgentRows ==
    { AgentRow(EmailPlain, m) : m \in {MarkNo, MarkSi, MarkSiPad} }
    \cup { AgentRow(<< " " >> \o EmailPlain, MarkNo), AgentRow(EmailNoAt, MarkNo), RowShort }

\* Worksheets: the header and up to MaxRows data rows.
AgentSheets ==
    UNION { { << AgentHeader >> \o data : data \in [1..n -> AgentRows] } : n \in 0..MaxRows }

\* parse_args of email_agent: max_emails is None when given is FALSE; the
\* sent column keeps its default name.
AgentArgsSet ==
    [ start_row        : 0..(MaxRows + 1),
      max_emails_given : BOOLEAN,
      max_emails       : 0..MaxEmails,
      skip_sent        : BOOLEAN,
      dry_run          : BOOLEAN,
      mark_sent_column : { Inviata } ]

AgentArgs == { a \in AgentArgsSet : ~a.max_emails_given => a.max_emails = 0 }

\* all_values[i] of Python, i zero-based, negative i counting from the end.
py_index(list, i) == IF i < 0 THEN list[Len(list) + i + 1] ELSE list[i + 1]

\* list.index(x), zero-based; -1 stands for the ValueError, i.e. None.
list_index(list, x) ==
    IF \E k \in 1..Len(list) : list[k] = x
    THEN (CHOOSE k \in 1..Len(list) : list[k] = x /\ \A j \in 1..(k - 1) : list[j] # x) - 1
    ELSE 0 - 1

\* Lines 200-205: the index of the sent column, -1 for None.
sent_col_idx_of(all_values, skip_sent, sent_column) ==
    IF skip_sent /\ sent_column # <<>>
    THEN list_index(all_values[1], sent_column)
    ELSE 0 - 1

\* already_sent comparing the cell as it stands, not stripped or lower-cased.
already_sent_exact(row, skip_sent, sent_col_idx) ==
    /\ skip_sent
    /\ sent_col_idx # 0 - 1
    /\ sent_col_idx < Len(row)
    /\ row[sent_col_idx + 1] \in sent_values

\* Lines 207-210: the row is skipped as already sent.
already_sent(row, skip_sent, sent_col_idx) ==
    /\ skip_sent
    /\ sent_col_idx # 0 - 1
    /\ sent_col_idx < Len(row)
    /\ lower(strip(row[sent_col_idx + 1])) \in sent_values

\* Lines 203-221: the row at idx becomes a recipient.
row_is_recipient(row, skip_sent, sent_col_idx) ==
    /\ Len(row) >= 6
    /\ ~already_sent(row, skip_sent, sent_col_idx)
    /\ strip(row[1]) # <<>>
    /\ contains(strip(row[1]), << "@" >>)

RecipientData(row, at) ==
    [ email |-> strip(row[1]), website |-> strip(row[3]), row_number |-> at + 1 ]

\* The loop of lines 202-233 over range(start_row - 1, end_row).
RECURSIVE load_loop(_, _, _, _, _)
load_loop(all_values, at, end_row, skip_sent, sent_col_idx) ==
    IF at >= end_row
    THEN <<>>
    ELSE LET row  == py_index(all_values, at)
             rest == load_loop(all_values, at + 1, end_row, skip_sent, sent_col_idx)
         IN  IF row_is_recipient(row, skip_sent, sent_col_idx)
             THEN << RecipientData(row, at) >> \o rest
             ELSE rest

\* load_recipients, lines 177-235.
load_recipients(all_values, start_row, max_emails_given, max_emails, skip_sent, sent_column) ==
    IF Len(all_values) < start_row
    THEN <<>>
    ELSE load_loop(all_values, start_row - 1,
                   IF max_emails_given /\ max_emails # 0
                   THEN Min(start_row + max_emails, Len(all_values))
                   ELSE Len(all_values),
                   skip_sent, sent_col_idx_of(all_values, skip_sent, sent_column))

\* ws.update of one cell, the row widened with empty cells up to the column.
update_cell(ws, r, c, value) ==
    [k \in 1..Len(ws) |->
        IF k # r
        THEN ws[k]
        ELSE [j \in 1..(IF c > Len(ws[k]) THEN c ELSE Len(ws[k])) |->
                IF j = c THEN value ELSE IF j <= Len(ws[k]) THEN ws[k][j] ELSE <<>>]]

\* Lines 321-326 of mark_as_sent: the column is added to row 1 when missing.
with_sent_column(ws, sent_column) ==
    IF list_index(ws[1], sent_column) # 0 - 1
    THEN ws
    ELSE update_cell(ws, 1, Len(ws[1]) + 1, sent_column)

\* mark_as_sent, lines 318-332, both updates accepted: the cell of the sent
\* column in the row is set.  Row numbers outside the sheet are refused.
mark_as_sent(ws, row_number, sent_column) ==
    LET widened == with_sent_column(ws, sent_column)
    IN  IF row_number \in 1..Len(ws)
        THEN update_cell(widened, row_number, list_index(widened[1], sent_column) + 1, MarkSi)
        ELSE widened

AgentRunStart ==
    /\ ag_pc = "start"
    /\ ag_recipients = <<>>
    /\ ag_i = 0
    /\ ag_success = 0
    /\ ag_error = 0
    /\ ag_smtp = 0
    /\ ag_last = <<>>
    /\ ag_handled = <<>>

\* main, lines 335-365: credentials, template, connection, load_recipients.
\* Any of the first three, or the read of the sheet, can raise.
AgentLoad ==
    /\ ag_pc = "start"
    /\ \/ /\ ag_pc' = "raised"
          /\ UNCHANGED << ag_recipients, ag_i >>
       \/ /\ ag_recipients' = load_recipients(ag_ws, ag_args.start_row,
                                              ag_args.max_emails_given, ag_args.max_emails,
                                              ag_args.skip_sent, ag_args.mark_sent_column)
          /\ ag_pc' = IF ag_recipients' = <<>> THEN "done" ELSE "send"
          /\ ag_i' = IF ag_recipients' = <<>> THEN 0 ELSE 1
    /\ UNCHANGED << ag_args, ag_ws, ag_success, ag_error, ag_run, ag_smtp, ag_last,
                    ag_handled, ag_marked, runVars, writeVars, harnessVars, enrichVars >>

\* AgentSend as if an error for one recipient ended the loop.
AgentSend_stop_on_error ==
    /\ ag_pc = "send"
    /\ LET recipient == ag_recipients[ag_i]
           row       == py_index(ag_ws, recipient.row_number - 1)
       IN  /\ ag_handled' = Append(ag_handled, recipient.row_number)
           /\ \/ \* render_email or send_email raises, or send_email returns False
                 /\ ag_error' = ag_error + 1
                 /\ UNCHANGED << ag_success, ag_smtp, ag_last, ag_ws, ag_marked >>
              \/ \* send_email returns True
                 /\ ag_success' = ag_success + 1
                 /\ ag_smtp' = IF ag_args.dry_run THEN ag_smtp ELSE ag_smtp + 1
                 /\ ag_last' = [ row_number |-> recipient.row_number, row |-> row,
                                 header |-> ag_ws[1] ]
                 /\ ag_error' = ag_error
                 /\ IF ~ag_args.dry_run /\ ag_args.mark_sent_column # <<>>
                    THEN \/ \* a ws call of mark_as_sent raises: caught, line 331
                            UNCHANGED << ag_ws, ag_marked >>
                         \/ /\ ag_ws' = mark_as_sent(ag_ws, recipient.row_number,
                                                     ag_args.mark_sent_column)
                            /\ ag_marked' =
                                 IF recipient.row_number \in 1..Len(ag_ws)
                                 THEN ag_marked \cup { << ag_run, recipient.row_number >> }
                                 ELSE ag_marked
                    ELSE UNCHANGED << ag_ws, ag_marked >>
    /\ IF ag_i < Len(ag_recipients) /\ ag_error' = ag_error
       THEN ag_i' = ag_i + 1 /\ ag_pc' = "send"
       ELSE ag_i' = ag_i /\ ag_pc' = "done"
    /\ UNCHANGED << ag_args, ag_recipients, ag_run, runVars, writeVars, harnessVars, enrichVars >>

\* One iteration of the send loop, lines 373-403, for recipient ag_i.
AgentSend ==
    /\ ag_pc = "send"
    /\ LET recipient == ag_recipients[ag_i]
           row       == py_index(ag_ws, recipient.row_number - 1)
       IN  /\ ag_handled' = Append(ag_handled, recipient.row_number)
           /\ \/ \* render_email or send_email raises, or send_email returns False
                 /\ ag_error' = ag_error + 1
                 /\ UNCHANGED << ag_success, ag_smtp, ag_last, ag_ws, ag_marked >>
              \/ \* send_email returns True
                 /\ ag_success' = ag_success + 1
                 /\ ag_smtp' = IF ag_args.dry_run THEN ag_smtp ELSE ag_smtp + 1
                 /\ ag_last' = [ row_number |-> recipient.row_number, row |-> row,
                                 header |-> ag_ws[1] ]
                 /\ ag_error' = ag_error
                 /\ IF ~ag_args.dry_run /\ ag_args.mark_sent_column # <<>>
                    THEN \/ \* a ws call of mark_as_sent raises: caught, line 331
                            UNCHANGED << ag_ws, ag_marked >>
                         \/ /\ ag_ws' = mark_as_sent(ag_ws, recipient.row_number,
                                                     ag_args.mark_sent_column)
                            /\ ag_marked' =
                                 IF recipient.row_number \in 1..Len(ag_ws)
                                 THEN ag_marked \cup { << ag_run, recipient.row_number >> }
                                 ELSE ag_marked
                    ELSE UNCHANGED << ag_ws, ag_marked >>
    /\ IF ag_i < Len(ag_recipients)
       THEN ag_i' = ag_i + 1 /\ ag_pc' = "send"
       ELSE ag_i' = ag_i /\ ag_pc' = "done"
    /\ UNCHANGED << ag_args, ag_recipients, ag_run, runVars, writeVars, harnessVars, enrichVars >>

\* main returns, or the exception leaves it: the process ends, the worksheet
\* stays.
AgentExit ==
    /\ ag_pc \in {"done", "raised"}
    /\ ag_pc' = "exited"
    /\ ag_args' = <<>>
    /\ ag_recipients' = <<>>
    /\ ag_i' = 0
    /\ ag_success' = 0
    /\ ag_error' = 0
    /\ ag_smtp' = 0
    /\ ag_last' = <<>>
    /\ ag_handled' = <<>>
    /\ UNCHANGED << ag_ws, ag_run, ag_marked, runVars, writeVars, harnessVars, enrichVars >>

\* The program is started again on the same worksheet.
AgentNextRun ==
    /\ ag_pc = "exited"
    /\ ag_run < MaxRuns
    /\ ag_run' = ag_run + 1
    /\ ag_args' \in AgentArgs
    /\ ag_pc' = "start"
    /\ ag_recipients' = <<>>
    /\ ag_i' = 0
    /\ ag_success' = 0
    /\ ag_error' = 0
    /\ ag_smtp' = 0
    /\ ag_last' = <<>>
    /\ ag_handled' = <<>>
    /\ UNCHANGED << ag_ws, ag_marked, runVars, writeVars, harnessVars, enrichVars >>


\* ---------------------------------------------------------- enrich_with_site
Https == << "h", "t", "t", "p", "s", ":", "/", "/" >>

\* A website given without a scheme.
BareSite == << "s", ".", "i", "t" >>

\* Lines 529-530: the paths tried after the website itself.
ContactPaths ==
    << << "/", "c", "o", "n", "t", "a", "t", "t", "i" >>,
       << "/", "c", "o", "n", "t", "a", "c", "t" >>,
       << "/", "a", "b", "o", "u", "t" >>,
       << "/", "c", "h", "i", "-", "s", "i", "a", "m", "o" >> >>

\* urlparse(url).scheme with its "://", empty when the URL has none.
scheme_prefix(url) ==
    IF index_of(url, ":") > 1
    THEN SubSeq(url, 1, index_of(url, ":")) \o << "/", "/" >>
    ELSE <<>>

\* Lines 524-526: the website with "https://" put before it when it has no scheme.
with_scheme(website) ==
    IF scheme_prefix(website) = <<>> THEN Https \o website ELSE website

\* Lines 527-530: the candidate URLs, the website first; urljoin of an absolute
\* path keeps scheme and host of the base.
candidate_urls(website) ==
    LET base == IF netloc(website) # <<>>
                THEN scheme_prefix(website) \o netloc(website)
                ELSE with_scheme(website)
    IN  << with_scheme(website) >>
        \o [k \in 1..Len(ContactPaths) |->
                scheme_prefix(base) \o netloc(base) \o ContactPaths[k]]

\* A page with nothing to object to.
PageClean ==
    [ https |-> TRUE, viewport |-> TRUE, description |-> TRUE, icon |-> TRUE,
      script |-> "none", tables |-> 5, divs |-> 30, html_len |-> 400000,
      text_len |-> 200, title |-> "long", free_service |-> FALSE,
      framework |-> FALSE, itemtype |-> FALSE, og |-> FALSE, canonical |-> FALSE,
      robots |-> FALSE, itemscope |-> FALSE ]

\* Pages a site can answer with: a missing favicon on a page with three
\* positive signals, which is not improvable; no https; no viewport.
SitePages ==
    { [PageClean EXCEPT !.icon = FALSE, !.framework = TRUE, !.og = TRUE, !.canonical = TRUE],
      [PageClean EXCEPT !.https = FALSE],
      [PageClean EXCEPT !.viewport = FALSE] }

\* extract_emails_from_html of the page at each candidate, when it names any:
\* sorted, and different from candidate to candidate.
PageEmails ==
    << << EmailPlain >>, << EmailGmail, EmailPlain >>, << EmailSentry >>,
       << EmailSite >>, << EmailJsUser >> >>

\* What fetch_html returns for candidate k, lines 509-516: None (exception,
\* timeout, status >= 400, empty body), or a page.
FetchOutcomes(k) ==
    { [ok |-> FALSE] }
    \cup { [ok |-> TRUE, page |-> pg, emails |-> e] :
                pg \in SitePages, e \in { <<>>, PageEmails[k] } }

\* What the five candidate URLs of a site answer.
SiteAnswers ==
    { << a, b, c, d, e >> :
        a \in FetchOutcomes(1), b \in FetchOutcomes(2), c \in FetchOutcomes(3),
        d \in FetchOutcomes(4), e \in FetchOutcomes(5) }

\* Lines 537-540 keeping the emails of the latest page.
next_emails_latest(emails, found) == found

\* Lines 537-540: emails are extracted only while none have been found.
next_emails(emails, found) == IF emails = <<>> THEN found ELSE emails

\* Lines 542-548 keeping the verdict of the latest page.
next_verdict_latest(migliorabile, note, verdict) == verdict

\* Lines 542-548 with the note taken from every page, the flag kept.
next_verdict_note_follows(migliorabile, note, verdict) ==
    [ migliorabile |-> migliorabile \/ verdict.migliorabile, note |-> verdict.note ]

\* Lines 542-548: an improvable verdict is kept; the note follows the page
\* while none was improvable.
next_verdict(migliorabile, note, verdict) ==
    IF verdict.migliorabile
    THEN [ migliorabile |-> TRUE, note |-> verdict.note ]
    ELSE IF ~migliorabile
    THEN [ migliorabile |-> migliorabile, note |-> verdict.note ]
    ELSE [ migliorabile |-> migliorabile, note |-> note ]

\* Line 550 never breaking.
should_stop_never(emails, migliorabile) == FALSE

\* Line 550: the loop is left once emails were found and the site is improvable.
should_stop(emails, migliorabile) == emails # <<>> /\ migliorabile

\* Lines 522-523: no website, nothing is fetched.
EnrichNoWebsite ==
    /\ en_pc = "called"
    /\ en_website = <<>>
    /\ en_pc' = "returned"
    /\ en_result' = [ email |-> <<>>, migliorabile |-> FALSE, note |-> "" ]
    /\ UNCHANGED << en_website, en_candidates, en_pages, en_k, en_emails, en_migliorabile, en_note,
                    en_fetches, en_chosen, runVars, writeVars, harnessVars, agentVars >>

\* One iteration of the loop with a failed fetch taken for fatal.
EnrichFetch_fatal ==
    /\ en_pc = "called"
    /\ en_website # <<>>
    /\ en_fetches' = Append(en_fetches, en_candidates[en_k])
    /\ IF ~en_pages[en_k].ok
       THEN /\ en_pc' = "raised"
            /\ UNCHANGED << en_emails, en_migliorabile, en_note, en_k >>
       ELSE LET verdict == next_verdict(en_migliorabile, en_note,
                                        assess_site_quality(en_pages[en_k].page))
            IN  /\ en_emails' = next_emails(en_emails, en_pages[en_k].emails)
                /\ en_migliorabile' = verdict.migliorabile
                /\ en_note' = verdict.note
                /\ IF should_stop(en_emails', en_migliorabile') \/ en_k = Len(en_candidates)
                   THEN en_pc' = "after" /\ en_k' = en_k
                   ELSE en_pc' = "called" /\ en_k' = en_k + 1
    /\ UNCHANGED << en_website, en_candidates, en_pages, en_result, en_chosen,
                    runVars, writeVars, harnessVars, agentVars >>

\* One iteration of the loop of lines 534-551: the fetch of candidate en_k,
\* and for a page the extraction, the verdict and the test for leaving.
EnrichFetch ==
    /\ en_pc = "called"
    /\ en_website # <<>>
    /\ en_fetches' = Append(en_fetches, en_candidates[en_k])
    /\ IF ~en_pages[en_k].ok
       THEN /\ UNCHANGED << en_emails, en_migliorabile, en_note >>
            /\ IF en_k = Len(en_candidates)
               THEN en_pc' = "after" /\ en_k' = en_k
               ELSE en_pc' = "called" /\ en_k' = en_k + 1
       ELSE LET verdict == next_verdict(en_migliorabile, en_note,
                                        assess_site_quality(en_pages[en_k].page))
            IN  /\ en_emails' = next_emails(en_emails, en_pages[en_k].emails)
                /\ en_migliorabile' = verdict.migliorabile
                /\ en_note' = verdict.note
                /\ IF should_stop(en_emails', en_migliorabile') \/ en_k = Len(en_candidates)
                   THEN en_pc' = "after" /\ en_k' = en_k
                   ELSE en_pc' = "called" /\ en_k' = en_k + 1
    /\ UNCHANGED << en_website, en_candidates, en_pages, en_result, en_chosen,
                    runVars, writeVars, harnessVars, agentVars >>

\* Lines 552-553: the email is chosen and the three values returned.
EnrichReturn ==
    /\ en_pc = "after"
    /\ en_pc' = "returned"
    /\ en_chosen' = en_chosen + 1
    /\ en_result' = [ email        |-> choose_best_email(en_emails, with_scheme(en_website)),
                      migliorabile |-> en_migliorabile,
                      note         |-> en_note ]
    /\ UNCHANGED << en_website, en_candidates, en_pages, en_k, en_emails, en_migliorabile, en_note,
                    en_fetches, runVars, writeVars, harnessVars, agentVars >>

\* ----------------------------------------------------------- specifications
EnrichIdle ==
    /\ en_pc = "off"
    /\ en_website = <<>>
    /\ en_candidates = <<>>
    /\ en_pages = <<>>
    /\ en_k = 0
    /\ en_emails = <<>>
    /\ en_migliorabile = FALSE
    /\ en_note = ""
    /\ en_result = <<>>
    /\ en_fetches = <<>>
    /\ en_chosen = 0

AgentIdle ==
    /\ ag_pc = "off"
    /\ ag_args = <<>>
    /\ ag_ws = <<>>
    /\ ag_recipients = <<>>
    /\ ag_i = 0
    /\ ag_success = 0
    /\ ag_error = 0
    /\ ag_run = 0
    /\ ag_smtp = 0
    /\ ag_last = <<>>
    /\ ag_handled = <<>>
    /\ ag_marked = {}

SideIdle == AgentIdle /\ EnrichIdle

HarnessIdle ==
    /\ f_pc = "off"
    /\ f_records = <<>>
    /\ f_seed = {}
    /\ f_out = <<>>
    /\ p_in = <<>>
    /\ p_out = <<>>

PureIdle == HarnessIdle /\ SideIdle

\* Everything run and write_rows own, before run's first statement.
RunStart ==
    /\ pc = "start"
    /\ exc = "none"
    /\ query_idx = 1
    /\ cards_count = 0
    /\ idx = 0
    /\ card_data_list = <<>>
    /\ tasks = <<>>
    /\ semaphore = 0
    /\ recs = <<>>
    /\ all_records = <<>>
    /\ save_file = <<>>
    /\ with_email = <<>>
    /\ bad_sites = <<>>
    /\ existing_websites = {}
    /\ unique_records = <<>>
    /\ wr_pc = "idle"
    /\ rows = <<>>
    /\ current_row_count = 0
    /\ attempt = 0
    /\ append_calls = <<>>
    /\ read_calls = <<>>
    /\ sleeps = <<>>
    /\ done_order = <<>>
    /\ overtaken = {}
    /\ reported = <<>>

\* The generator as seeded in the runs where no claim is about the waits.
Seeded == random_state = << 10, 0, 5, 10 >>

\* A run over two queries, or from a file.
Init ==
    /\ args \in ArgsSet
    /\ queries = TwoQueries
    /\ sheet \in PriorSheets
    /\ RunStart
    /\ Seeded
    /\ PureIdle

Next ==
    \/ RunValidate
    \/ RunLoadFrom
    \/ ScrapeNavigate
    \/ ScrapeExtractCard
    \/ ScrapeStartEnrich
    \/ \E i \in 1..Len(tasks) : TaskAcquire(i)
    \/ \E i \in 1..Len(tasks) : TaskFinish(i)
    \/ ScrapeGatherReturn
    \/ RunAggregate
    \/ RunFinalSave
    \/ RunProcess
    \/ RunConnect
    \/ RunLoadExisting
    \/ RunDedup
    \/ WriteRowsPrepare
    \/ WriteRowsAppend
    \/ WriteRowsSleep
    \/ WriteRowsVerify
    \/ RunAfterWrite

Spec == Init /\ [][Next]_vars

\* A run from a file into a sheet, with the generator in any of its states.
InitWrite ==
    /\ args = [ sheet_id |-> TRUE, load_from |-> TRUE, min_delay |-> 1,
                max_delay |-> 2, max_per_query |-> 1, max_concurrent |-> 1 ]
    /\ queries = TwoQueries
    /\ sheet = <<headers>>
    /\ RunStart
    /\ random_state \in RandomStates
    /\ PureIdle

NextWrite ==
    \/ RunValidate
    \/ RunLoadFrom
    \/ RunProcess
    \/ RunConnect
    \/ RunLoadExisting
    \/ RunDedup
    \/ WriteRowsPrepare
    \/ WriteRowsAppend
    \/ WriteRowsSleep
    \/ WriteRowsVerify
    \/ RunAfterWrite

SpecWrite == InitWrite /\ [][NextWrite]_vars

\* The scraping of one query under every concurrency bound and batch size,
\* with the scheduling of the event loop: a task that can enter the gate does,
\* a fetch that was started ends, and gather resumes scrape_query when every
\* task has ended.
GateArgsSet ==
    [ sheet_id       : {TRUE},
      load_from      : {FALSE},
      min_delay      : {1},
      max_delay      : {2},
      max_per_query  : 1..MaxTasks,
      max_concurrent : 1..MaxConcurrent ]

InitGate ==
    /\ args \in GateArgsSet
    /\ queries = OneQuery
    /\ sheet = <<headers>>
    /\ RunStart
    /\ Seeded
    /\ PureIdle

NextGate ==
    \/ RunValidate
    \/ ScrapeNavigate
    \/ ScrapeExtractCard
    \/ ScrapeStartEnrich
    \/ \E i \in 1..Len(tasks) : TaskAcquire(i)
    \/ \E i \in 1..Len(tasks) : TaskFinish(i)
    \/ ScrapeGatherReturn
    \/ RunAggregate
    \/ RunFinalSave

GateFairness ==
    /\ \A i \in 1..MaxTasks :
            /\ WF_vars(i <= Len(tasks) /\ TaskAcquire(i))
            /\ WF_vars(i <= Len(tasks) /\ TaskFinish(i))
    /\ WF_vars(ScrapeGatherReturn)

SpecGate == InitGate /\ [][NextGate]_vars /\ GateFairness

\* The scraping of two queries with --max-concurrent 0, and with 1 beside it.
ZeroArgsSet ==
    [ sheet_id       : {TRUE},
      load_from      : {FALSE},
      min_delay      : {1},
      max_delay      : {2},
      max_per_query  : {MaxPerQuery},
      max_concurrent : {0, 1} ]

InitZero ==
    /\ args \in ZeroArgsSet
    /\ queries = TwoQueries
    /\ sheet = <<headers>>
    /\ RunStart
    /\ Seeded
    /\ PureIdle

SpecZero == InitZero /\ [][NextGate]_vars

\* A scraping run over the queries of a file.
QueriesArgsSet ==
    [ sheet_id       : {TRUE},
      load_from      : {FALSE},
      min_delay      : {1},
      max_delay      : {2},
      max_per_query  : 1..MaxPerQuery,
      max_concurrent : {1} ]

InitQueries ==
    /\ args \in QueriesArgsSet
    /\ queries = <<>>
    /\ sheet = <<headers>>
    /\ RunStart
    /\ Seeded
    /\ SideIdle
    /\ f_pc = "queries_file"
    /\ f_records = <<>>
    /\ f_seed = {}
    /\ f_out = <<>>
    /\ p_in \in QueryFiles
    /\ p_out = <<>>

NextQueries ==
    \/ RunLoadQueries
    \/ ScrapeNavigate
    \/ ScrapeExtractCard
    \/ ScrapeStartEnrich
    \/ \E i \in 1..Len(tasks) : TaskAcquire(i)
    \/ \E i \in 1..Len(tasks) : TaskFinish(i)
    \/ ScrapeGatherReturn
    \/ RunAggregate
    \/ RunFinalSave

SpecQueries == InitQueries /\ [][NextQueries]_vars

\* A scraping run over one query with up to MaxTasks cards, into a sheet that
\* holds its header only.
InitOneQuery ==
    /\ args \in OneQueryArgsSet
    /\ queries = OneQuery
    /\ sheet = <<headers>>
    /\ RunStart
    /\ Seeded
    /\ PureIdle

NextOneQuery ==
    \/ RunValidate
    \/ ScrapeNavigate
    \/ ScrapeExtractCard
    \/ ScrapeStartEnrich
    \/ \E i \in 1..Len(tasks) : TaskAcquire(i)
    \/ \E i \in 1..Len(tasks) : TaskFinish(i)
    \/ ScrapeGatherReturn
    \/ RunAggregate
    \/ RunFinalSave
    \/ RunProcess
    \/ RunConnect
    \/ RunLoadExisting
    \/ RunDedup
    \/ WriteRowsPrepare
    \/ WriteRowsAppend
    \/ WriteRowsSleep
    \/ WriteRowsVerify
    \/ RunAfterWrite

SpecOneQuery == InitOneQuery /\ [][NextOneQuery]_vars

\* The filters alone, on every input list.
InitFilters ==
    /\ args \in { a \in ArgsSet : a.load_from /\ a.sheet_id /\ a.min_delay = 1 }
    /\ queries = TwoQueries
    /\ sheet = <<headers>>
    /\ RunStart
    /\ Seeded
    /\ SideIdle
    /\ f_pc = "input"
    /\ f_records \in FilterInputs
    /\ f_seed \in Seeds
    /\ f_out = <<>>
    /\ p_in = <<>>
    /\ p_out = <<>>

NextFilters ==
    \/ PureDedup
    \/ PureDedupAgain
    \/ PureAccept
    \/ PureBothOrders
    \/ PureRoundTrip

SpecFilters == InitFilters /\ [][NextFilters]_vars

\* assess_site_quality alone, on every page.
InitQuality ==
    /\ args \in { a \in ArgsSet : a.load_from /\ a.sheet_id /\ a.min_delay = 1 }
    /\ queries = TwoQueries
    /\ sheet = <<headers>>
    /\ RunStart
    /\ Seeded
    /\ SideIdle
    /\ f_pc = "page"
    /\ f_records = <<>>
    /\ f_seed = {}
    /\ f_out = <<>>
    /\ p_in \in Pages
    /\ p_out = <<>>

NextQuality == PureAssess

SpecQuality == InitQuality /\ [][NextQuality]_vars

\* choose_best_email alone, on every candidate list and website.
InitEmail ==
    /\ args \in { a \in ArgsSet : a.load_from /\ a.sheet_id /\ a.min_delay = 1 }
    /\ queries = TwoQueries
    /\ sheet = <<headers>>
    /\ RunStart
    /\ Seeded
    /\ SideIdle
    /\ f_pc = "emails"
    /\ f_records = <<>>
    /\ f_seed = {}
    /\ f_out = <<>>
    /\ p_in \in [ candidates : CandidateLists, website : EmailWebsites ]
    /\ p_out = <<>>

NextEmail == PureChoose

SpecEmail == InitEmail /\ [][NextEmail]_vars

\* email_agent run MaxRuns times on one worksheet.
InitAgent ==
    /\ args \in { a \in ArgsSet : a.load_from /\ a.sheet_id /\ a.min_delay = 1 }
    /\ queries = TwoQueries
    /\ sheet = <<headers>>
    /\ RunStart
    /\ Seeded
    /\ HarnessIdle
    /\ EnrichIdle
    /\ ag_ws \in AgentSheets
    /\ ag_args \in AgentArgs
    /\ ag_run = 1
    /\ ag_marked = {}
    /\ AgentRunStart

NextAgent ==
    \/ AgentLoad
    \/ AgentSend
    \/ AgentExit
    \/ AgentNextRun

SpecAgent == InitAgent /\ [][NextAgent]_vars


\* enrich_with_site called on a website whose five candidate URLs answer in
\* every way.
InitEnrich ==
    /\ args \in { a \in ArgsSet : a.load_from /\ a.sheet_id /\ a.min_delay = 1 }
    /\ queries = TwoQueries
    /\ sheet = <<headers>>
    /\ RunStart
    /\ Seeded
    /\ HarnessIdle
    /\ AgentIdle
    /\ en_pc = "called"
    /\ en_website \in { <<>>, UrlSite, BareSite }
    /\ en_candidates = IF en_website = <<>> THEN <<>> ELSE candidate_urls(en_website)
    /\ en_pages \in IF en_website = <<>> THEN { << >> } ELSE SiteAnswers
    /\ en_k = 1
    /\ en_emails = <<>>
    /\ en_migliorabile = FALSE
    /\ en_note = ""
    /\ en_result = <<>>
    /\ en_fetches = <<>>
    /\ en_chosen = 0

NextEnrich ==
    \/ EnrichNoWebsite
    \/ EnrichFetch
    \/ EnrichReturn

SpecEnrich == InitEnrich /\ [][NextEnrich]_vars

\* ------------------------------------------------------------------ claims
\* Some character of t is not a blank: t is non-empty after stripping.
NonBlank(t) == \E k \in 1..Len(t) : t[k] # " "

\* The record passes both acceptance stages.
Accepted(r) == NonBlank(r.email) /\ r.migliorabile = TRUE

\* out holds exactly the records of inp at the positions in keep, in the
\* order of inp.  (Records of one list differ by name.)
IsSelection(out, inp, keep) ==
    /\ Len(out) = Cardinality(keep)
    /\ \A i \in keep : \E j \in 1..Len(out) : out[j] = inp[i]
    /\ \A j \in 1..Len(out) : \E i \in keep : out[j] = inp[i]
    /\ \A j, k \in 1..Len(out) :
            j < k => \E a, b \in keep : a < b /\ out[j] = inp[a] /\ out[k] = inp[b]

OkCalls == { j \in 1..Len(append_calls) : append_calls[j] = "ok" }

ErrorCalls == { j \in 1..Len(append_calls) : append_calls[j] = "error" }

RowsOf(records) == [i \in 1..Len(records) |-> to_row(records[i])]

\* C1: write_rows makes at most 5 append_rows calls; every call before the
\* last one failed (it stops at the first success); and once 5 calls have
\* failed the exception has left write_rows and leaves run as well: run never
\* completes normally after it.
C1_AtMostFiveAppends ==
    /\ Len(append_calls) <= 5
    /\ \A j \in 1..(Len(append_calls) - 1) : append_calls[j] = "error"
    /\ Cardinality(ErrorCalls) = 5 =>
            /\ wr_pc = "raised"
            /\ pc \in {"write", "raised"}
            /\ pc = "raised" => exc = "APIError"

C1_Witness ==
    /\ pc = "raised"
    /\ exc = "APIError"
    /\ Cardinality(ErrorCalls) = 5

\* C2: a successful append_rows call is the last call, so k failures followed
\* by a success make exactly k + 1 calls; until it succeeds the sheet is as
\* the run found it, and from then on the sheet is what the run found plus
\* exactly one row per record handed to write_rows, in their order.
C2_RetryThenAppendOnce ==
    /\ \A j \in OkCalls : j = Len(append_calls)
    /\ wr_pc = "returned" => OkCalls # {}
    /\ IF OkCalls = {}
       THEN sheet \in PriorSheets
       ELSE \E p \in PriorSheets : sheet = p \o RowsOf(unique_records)

C2_Witness ==
    /\ wr_pc = "returned"
    /\ append_calls = << "error", "error", "ok" >>
    /\ Len(unique_records) >= 2

\* C3: reads of the sheet never decide the outcome of write_rows.  After the
\* read before writing, failed or not, the first append follows; the
\* read-back happens only after the one successful append and, failed or not,
\* write_rows has returned, no append follows and run has no exception; an
\* exception leaves write_rows only after 5 failed appends.
C3_ReadFailuresHarmless ==
    /\ (Len(read_calls) >= 1 /\ append_calls = <<>>) => wr_pc = "append"
    /\ Len(read_calls) = 2 =>
            /\ wr_pc = "returned"
            /\ pc \in {"write", "done"}
            /\ exc = "none"
            /\ OkCalls = { Len(append_calls) }
    /\ Len(read_calls) <= 2
    /\ wr_pc = "raised" => Cardinality(ErrorCalls) = 5

C3_Witness ==
    /\ pc = "done"
    /\ read_calls = << "error", "error" >>
    /\ OkCalls # {}

\* Positions of the harness input kept by the first dedup_records run.
DedupKept ==
    { i \in 1..Len(f_records) : \E j \in 1..Len(f_out.unique) : f_out.unique[j] = f_records[i] }

\* C4: with a record's website taken after strip, dedup_records returns a
\* subsequence of its input in input order; every record whose website is
\* empty is kept; no kept record has a non-empty website of the seed; no two
\* kept records have the same non-empty website; and of the records with one
\* non-empty website outside the seed exactly the first is kept.
C4_DedupByStrippedWebsite ==
    f_pc = "dedup" =>
        LET K(i) == strip(f_records[i].website)
        IN  /\ IsSelection(f_out.unique, f_records, DedupKept)
            /\ \A i \in 1..Len(f_records) : ~NonBlank(f_records[i].website) => i \in DedupKept
            /\ \A i \in DedupKept : K(i) # <<>> => K(i) \notin f_seed
            /\ \A i, j \in DedupKept : (i # j /\ K(i) # <<>>) => K(i) # K(j)
            /\ \A i \in 1..Len(f_records) :
                    (K(i) # <<>> /\ K(i) \notin f_seed) =>
                        (i \in DedupKept <=> \A j \in 1..(i - 1) : K(j) # K(i))

C4_Witness ==
    /\ f_pc = "dedup"
    /\ Len(f_records) = 3
    /\ f_records[1].website = SiteA
    /\ f_records[2].website = SitePadA
    /\ f_records[3].website = SiteB
    /\ f_seed = {SiteB}
    /\ Len(f_out.unique) = 1

\* C5 as stated: the second run, seeded with the key set of the first, gives
\* an empty list.
C5_AsStated ==
    f_pc = "dedup_again" => f_out.again = <<>>

\* C5, amended: the key set the first run ends with is the seed plus the
\* stripped non-empty websites of the records it kept, and the second run,
\* seeded with it, gives exactly the records whose website is empty after
\* strip, in input order; so it gives the empty list when every record has a
\* website.
C5_SecondRunKeepsOnlyBlankWebsites ==
    f_pc = "dedup_again" =>
        /\ f_out.seen = f_seed \cup
                ({ strip(f_out.unique[j].website) : j \in 1..Len(f_out.unique) } \ { <<>> })
        /\ IsSelection(f_out.again, f_records,
                       { i \in 1..Len(f_records) : ~NonBlank(f_records[i].website) })

C5_Witness ==
    /\ f_pc = "dedup_again"
    /\ Len(f_records) = 3
    /\ Len(f_out.unique) = 3
    /\ Len(f_out.again) = 1
    /\ f_seed = {}

\* C6: the acceptance filter keeps exactly the records whose email is
\* non-empty after strip and whose migliorabile flag is true, in input order.
C6_AcceptanceIsConjunction ==
    f_pc = "accept" =>
        IsSelection(f_out.accepted, f_records,
                    { i \in 1..Len(f_records) : Accepted(f_records[i]) })

C6_Witness ==
    /\ f_pc = "accept"
    /\ Len(f_records) = 3
    /\ f_records[1].email = Blank /\ f_records[1].migliorabile
    /\ f_records[2].email = MailE /\ ~f_records[2].migliorabile
    /\ f_records[3].email = MailE /\ f_records[3].migliorabile
    /\ Len(f_out.accepted) = 1

\* C7: the rows the sheet holds beyond those the run found each come from a
\* record of the run whose email is non-empty and whose flag is true; a
\* non-empty website of such a row is not among the websites read from the
\* sheet; and no two of these rows have the same non-empty website.
C7_AppendedRowsAcceptedAndUnique ==
    \E p \in PriorSheets :
        /\ Len(p) <= Len(sheet)
        /\ SubSeq(sheet, 1, Len(p)) = p
        /\ LET app == SubSeq(sheet, Len(p) + 1, Len(sheet))
           IN  /\ \A j \in 1..Len(app) :
                    /\ \E i \in 1..Len(all_records) :
                            /\ app[j] = to_row(all_records[i])
                            /\ Accepted(all_records[i])
                    /\ app[j][3] # <<>> => app[j][3] \notin existing_websites
               /\ \A j, k \in 1..Len(app) :
                    (j # k /\ app[j][3] # <<>>) => app[j][3] # app[k][3]

C7_Witness ==
    /\ pc = "done"
    /\ OkCalls # {}
    /\ Len(all_records) = 3
    /\ Accepted(all_records[1])
    /\ Accepted(all_records[3])
    /\ all_records[1].website = SiteA
    /\ all_records[3].website = SiteA
    /\ all_records[1].query # all_records[3].query
    /\ existing_websites = {}

\* run has computed unique_records.
DedupRan ==
    \/ pc = "write"
    \/ pc = "done" /\ bad_sites # <<>> /\ args.sheet_id
    \/ pc = "raised" /\ wr_pc = "raised"

\* C8: an accepted record is discarded by dedup only for a website read from
\* the sheet or for an earlier accepted record with the same website; a
\* rejected record with that website, wherever it stands, does not discard it.
C8_RejectedRecordsDoNotShadow ==
    DedupRan =>
        \A j \in 1..Len(all_records) :
            LET r == all_records[j]
                k == strip(r.website)
            IN  ( /\ Accepted(r)
                  /\ \/ k = <<>>
                     \/ /\ k \notin existing_websites
                        /\ \A i \in 1..(j - 1) :
                              Accepted(all_records[i]) => strip(all_records[i].website) # k )
                => \E u \in 1..Len(unique_records) : unique_records[u] = r

C8_Witness ==
    /\ DedupRan
    /\ Len(all_records) >= 2
    /\ ~Accepted(all_records[1])
    /\ Accepted(all_records[2])
    /\ all_records[1].website = SiteB
    /\ all_records[2].website = SiteB
    /\ unique_records = << all_records[2] >>

RunningTasks == { i \in 1..Len(tasks) : tasks[i].st = "running" }

FailedTasks == { i \in 1..Len(tasks) : tasks[i].st = "failed" }

\* C9: at most max_concurrent tasks are inside `async with semaphore` at once.
C9_AtMostNInGate ==
    /\ Cardinality(RunningTasks) <= args.max_concurrent
    /\ semaphore >= 0

C9_Witness ==
    /\ pc = "gather"
    /\ Cardinality(RunningTasks) = args.max_concurrent
    /\ \E i \in 1..Len(tasks) : tasks[i].st = "waiting"

\* C10: a task that raised leaves the batch running: run has no exception
\* while such a task exists; and when scrape_query returns every task has
\* ended, the result holds exactly the records of the tasks that did not
\* raise, in task order, so its length is the number of extracted cards less
\* the number of failed tasks.
C10_FailedTasksAreDropped ==
    /\ FailedTasks # {} => (pc \in {"gather", "aggregate"} /\ exc = "none")
    /\ pc = "aggregate" =>
            /\ \A i \in 1..Len(tasks) : tasks[i].st \in {"done", "failed"}
            /\ Len(recs) = Len(card_data_list) - Cardinality(FailedTasks)
            /\ \A i \in 1..Len(tasks) :
                    tasks[i].st = "done" => \E j \in 1..Len(recs) : recs[j] = tasks[i].res[1]
            /\ \A j \in 1..Len(recs) :
                    \E i \in 1..Len(tasks) : tasks[i].st = "done" /\ recs[j] = tasks[i].res[1]

C10_Witness ==
    /\ pc = "aggregate"
    /\ Len(tasks) = 3
    /\ tasks[1].st = "failed"
    /\ tasks[2].st = "done"
    /\ tasks[3].st = "done"
    /\ Len(recs) = 2

\* Position of the record's query in the query list, and of its card in the
\* listing of that query.
QueryPos(r) == CHOOSE q \in 1..Len(queries) : queries[q].keyword = r.business_keyword

CardPos(r) == CHOOSE a \in 1..Len(CardNames) : CardNames[a] = r.name

ExtractedBefore(r, s) ==
    \/ QueryPos(r) < QueryPos(s)
    \/ QueryPos(r) = QueryPos(s) /\ CardPos(r) < CardPos(s)

\* C11: scrape_query returns its records in the order their cards were
\* extracted, whatever order the tasks ended in; the running total lists the
\* queries in query order; so of the accepted records with one website dedup
\* keeps the one extracted first.
C11_ExtractionOrderDecides ==
    /\ pc = "aggregate" =>
            \A j, k \in 1..Len(recs) : j < k => CardPos(recs[j]) < CardPos(recs[k])
    /\ \A j, k \in 1..Len(all_records) :
            j < k => ExtractedBefore(all_records[j], all_records[k])
    /\ DedupRan =>
            \A u \in 1..Len(unique_records) : \A j \in 1..Len(all_records) :
                LET r == unique_records[u]
                    s == all_records[j]
                IN  ( /\ s # r
                      /\ Accepted(s)
                      /\ strip(r.website) # <<>>
                      /\ strip(s.website) = strip(r.website) )
                    => ExtractedBefore(r, s)

C11_Witness ==
    /\ DedupRan
    /\ 1 \in overtaken
    /\ Len(all_records) >= 2
    /\ all_records[1].query = all_records[2].query
    /\ Accepted(all_records[1])
    /\ Accepted(all_records[2])
    /\ all_records[1].website = SiteA
    /\ all_records[2].website = SiteA
    /\ existing_websites = {}
    /\ unique_records # <<>>
    /\ unique_records[1] = all_records[1]

\* The records in the checkpoint file, none while there is no file.
Checkpointed == IF save_file = <<>> THEN <<>> ELSE save_file[1].records

\* A step that ends a query with a non-empty total leaves in the file what it
\* held followed by that query's records; no step removes or changes a
\* checkpointed record.
CheckpointGrows ==
    /\ (pc = "aggregate" /\ all_records \o recs # <<>>) =>
            (/\ Len(save_file') = 1
             /\ save_file'[1].records =
                    Checkpointed \o [i \in 1..Len(recs) |-> to_dict(recs[i])])
    /\ save_file # <<>> =>
            (/\ save_file' # <<>>
             /\ Len(save_file'[1].records) >= Len(Checkpointed)
             /\ SubSeq(save_file'[1].records, 1, Len(Checkpointed)) = Checkpointed)

\* C12: in a scraping run the checkpoint file, once written, holds exactly
\* the records of the running total, in order, with their count; when a
\* query completes with a non-empty total the file holds what it held
\* followed by that query's records; and no step, a later query's failure and
\* a failed store write included, removes or changes a checkpointed record.
C12_CheckpointKeepsCompletedQueries ==
    /\ [](~args.load_from =>
            IF all_records = <<>>
            THEN save_file = <<>>
            ELSE /\ Len(save_file) = 1
                 /\ save_file[1].total_records = Len(all_records)
                 /\ save_file[1].records =
                        [i \in 1..Len(all_records) |-> to_dict(all_records[i])])
    /\ [][CheckpointGrows]_vars

C12_Witness ==
    /\ pc = "raised"
    /\ exc = "TimeoutError"
    /\ query_idx = 2
    /\ save_file # <<>>
    /\ Len(save_file[1].records) = 2
    /\ save_file[1].records[2] = to_dict(all_records[2])

\* C13 as stated: a scraping run without a sheet id, its delays being valid,
\* goes on to scrape: it never ends with the configuration error.
C13_AsStated ==
    (~args.sheet_id /\ ~args.load_from /\ args.min_delay <= args.max_delay)
        => exc # "ValueError"

\* C13, amended: without a sheet id no run reads or writes the store; a
\* scraping run raises ValueError at once, having scraped nothing and written
\* no checkpoint; a --load-from run that ends with records has logged the
\* total and the count after each acceptance filter, and has written no file.
C13_NoSheetId ==
    ~args.sheet_id =>
        /\ read_calls = <<>>
        /\ append_calls = <<>>
        /\ sheet \in PriorSheets
        /\ existing_websites = {}
        /\ pc \notin {"connect", "load_existing", "dedup", "write"}
        /\ (~args.load_from /\ pc # "start") =>
                /\ pc = "raised"
                /\ exc = "ValueError"
                /\ all_records = <<>>
                /\ save_file = <<>>
                /\ card_data_list = <<>>
                /\ tasks = <<>>
                /\ reported = <<>>
        /\ (args.load_from /\ pc = "done" /\ all_records # <<>>) =>
                /\ save_file = <<>>
                /\ reported =
                      << << "total", Len(all_records) >>,
                         << "with_email",
                            Cardinality({ i \in 1..Len(all_records) :
                                            NonBlank(all_records[i].email) }) >>,
                         << "bad_sites",
                            Cardinality({ i \in 1..Len(all_records) :
                                            Accepted(all_records[i]) }) >> >>

C13_Witness ==
    /\ ~args.sheet_id
    /\ ~args.load_from
    /\ args.min_delay <= args.max_delay
    /\ pc = "raised"
    /\ exc = "ValueError"

\* What run has logged so far.
ReportedCounts == { reported[k][1] : k \in 1..Len(reported) }

\* C14 as stated: when a configuration error (ValueError) has left run, no
\* query was scraped, no checkpoint file written and the store not accessed.
C14_AsStated ==
    exc = "ValueError" =>
        /\ ~args.load_from => all_records = <<>>
        /\ save_file = <<>>
        /\ overtaken = {}
        /\ read_calls = <<>>
        /\ append_calls = <<>>

\* The run C14 fails on: a scraping run whose credentials are found missing
\* after its records were scraped and checkpointed.
C14_Witness ==
    /\ ~args.load_from
    /\ pc = "raised"
    /\ exc = "ValueError"
    /\ all_records # <<>>
    /\ save_file # <<>>

\* C15 as stated: when an error has left run after the processing phase began
\* with at least one record, run has logged the total, the count after each
\* of the two filters and the deduplicated count.
C15_AsStated ==
    (pc = "raised" /\ all_records # <<>> /\ reported # <<>>) =>
        {"total", "with_email", "bad_sites", "unique"} \subseteq ReportedCounts

\* The run C15 fails on: the connection to the store raised after the filter
\* counts were logged and before the deduplicated count is known.
C15_Witness ==
    /\ pc = "raised"
    /\ exc \in {"ValueError", "APIError"}
    /\ wr_pc = "idle"
    /\ bad_sites # <<>>
    /\ ReportedCounts = {"total", "with_email", "bad_sites"}

\* C16: a task whose card has an empty website ends with a record, never with
\* an exception, and without having fetched anything; a record with an empty
\* website has an empty email, a false flag and an empty note; so no such
\* record passes the acceptance filters, survives to unique_records or has
\* its row in the sheet.
C16_EmptyWebsiteNeverAccepted ==
    /\ \A i \in 1..Len(tasks) :
            (card_data_list[i].website = <<>> /\ tasks[i].st \in {"done", "failed"}) =>
                /\ tasks[i].st = "done"
                /\ ~tasks[i].fetched
                /\ tasks[i].res[1].email = <<>>
                /\ tasks[i].res[1].migliorabile = FALSE
                /\ tasks[i].res[1].note = ""
    /\ \A i \in 1..Len(all_records) :
            all_records[i].website = <<>> =>
                /\ all_records[i].email = <<>>
                /\ all_records[i].migliorabile = FALSE
                /\ all_records[i].note = ""
    /\ \A i \in 1..Len(bad_sites) : bad_sites[i].website # <<>>
    /\ \A i \in 1..Len(unique_records) : unique_records[i].website # <<>>
    /\ \A j \in 1..Len(sheet) : sheet[j][3] # <<>>

C16_Witness ==
    /\ ~args.load_from
    /\ pc = "done"
    /\ OkCalls # {}
    /\ Len(all_records) = 3
    /\ all_records[1].website = <<>>
    /\ all_records[2].website = SiteA
    /\ Len(unique_records) = 1

\* The five positive signals present on a page.
PositiveSignals(page) ==
    { s \in {"framework", "structured data", "og", "canonical", "robots"} :
        \/ s = "framework" /\ page.framework
        \/ s = "structured data" /\ (page.itemtype \/ page.itemscope)
        \/ s = "og" /\ page.og
        \/ s = "canonical" /\ page.canonical
        \/ s = "robots" /\ page.robots }

\* The rubric: each problem signal with its description, in rubric order.
Rubric(page) ==
    << << ~page.https, "assenza https" >>,
       << ~page.viewport, "non responsive (viewport mancante)" >>,
       << ~page.description, "meta description mancante" >>,
       << ~page.icon, "favicon assente" >>,
       << page.script = "jquery-1.", "usa jquery 1.x" >>,
       << page.script = "bootstrap 3.", "bootstrap datato" >>,
       << page.tables >= 6 /\ page.divs <= 29, "layout a tabelle" >>,
       << page.html_len >= 400001, "pagina pesante >400KB" >>,
       << page.text_len <= 199, "contenuti scarsi" >>,
       << page.title \in {"none", "empty"}, "titolo mancante" >>,
       << page.title = "short", "titolo troppo corto" >>,
       << page.free_service, "usa servizio gratuito" >> >>

\* The descriptions of the problems present, in rubric order.
Problems(page) ==
    LET present == SelectSeq(Rubric(page), LAMBDA e : e[1])
    IN  [k \in 1..Len(present) |-> present[k][2]]

\* C17: with 3 or more of the 5 positive signals the verdict is false whatever
\* the problems; with fewer it is true exactly when a problem is present; the
\* note is the first five problem descriptions, or all when fewer, in rubric
\* order joined with "; "; so a true verdict has a non-empty note, and a page
\* from a non-https URL with fewer than 3 positive signals is improvable with
\* the note starting with the missing-https reason.
C17_QualityVerdict ==
    f_pc = "assessed" =>
        LET pos == Cardinality(PositiveSignals(p_in))
            problems == Problems(p_in)
            shown == IF Len(problems) > 5 THEN SubSeq(problems, 1, 5) ELSE problems
        IN  /\ pos >= 3 => p_out.migliorabile = FALSE
            /\ pos < 3 => (p_out.migliorabile <=> problems # <<>>)
            /\ p_out.note = join(shown)
            /\ p_out.migliorabile => p_out.note # ""
            /\ (~p_in.https /\ pos < 3) =>
                    /\ p_out.migliorabile
                    /\ shown[1] = "assenza https"
                    /\ p_out.note = join(<< "assenza https" >> \o Tail(shown))

C17_Witness ==
    /\ f_pc = "assessed"
    /\ ~p_in.https
    /\ Cardinality(PositiveSignals(p_in)) = 2
    /\ Len(Problems(p_in)) = 6
    /\ p_out.migliorabile
    /\ p_out.note = "assenza https; non responsive (viewport mancante); "
                      \o "meta description mancante; favicon assente; usa jquery 1.x"

\* The part of an address before its first "@", and its domain in lower
\* case: what follows the "@" when there is exactly one, else nothing.
LocalPart(e) == SubSeq(e, 1, IF index_of(e, "@") = 0 THEN Len(e) ELSE index_of(e, "@") - 1)

Domain(e) ==
    LET at == { k \in 1..Len(e) : e[k] = "@" }
    IN  IF Cardinality(at) = 1
        THEN lower(SubSeq(e, (CHOOSE k \in at : TRUE) + 1, Len(e)))
        ELSE <<>>

\* The candidate passes the filter of the claim.
Survives(e) ==
    /\ Domain(e) # <<>>
    /\ Len(LocalPart(e)) <= 40
    /\ Domain(e) \notin { WixpressCom, SentryNextWixpressCom, SentryIo }
    /\ ~endswith(Domain(e), WixpressCom)
    /\ ~endswith(Domain(e), SentryIo)
    /\ ~contains(Domain(e), DotJs)
    /\ ~contains(LocalPart(e), DotJs)

\* The least position of a non-empty set of positions.
First(positions) == CHOOSE k \in positions : \A j \in positions : k <= j

\* C18: choose_best_email returns the empty string exactly when no candidate
\* survives the filter; otherwise it returns the first survivor whose domain
\* is a substring of the website's host, if there is one; else the first
\* survivor on a common public provider, if there is one; else the first
\* survivor.  What it returns is empty or a surviving candidate, so never a
\* blacklisted address.
C18_BestEmail ==
    f_pc = "chosen" =>
        LET list      == p_in.candidates
            host      == site_domain(p_in.website)
            survivors == { k \in 1..Len(list) : Survives(list[k]) }
            on_site   == { k \in survivors : host # <<>> /\ contains(host, Domain(list[k])) }
            on_common == { k \in survivors : Domain(list[k]) \in common }
        IN  /\ p_out = <<>> <=> survivors = {}
            /\ on_site # {} => p_out = list[First(on_site)]
            /\ (on_site = {} /\ on_common # {}) => p_out = list[First(on_common)]
            /\ (on_site = {} /\ on_common = {} /\ survivors # {}) =>
                    p_out = list[First(survivors)]
            /\ p_out # <<>> => \E k \in survivors : list[k] = p_out
            /\ p_out \notin { EmailSentry, EmailWixSub }

C18_Witness ==
    /\ f_pc = "chosen"
    /\ p_in.candidates = << EmailSentry, EmailGmailUpper, EmailSite >>
    /\ p_in.website = UrlSite
    /\ p_out = EmailSite

\* C19: saving a list of N records with save_records_to_json and loading the
\* file with load_records_from_json gives back N records in the same order,
\* each equal to the original in every field; the file's total_records is the
\* number of entries of its records array.
C19_CheckpointRoundTrip ==
    f_pc = "loaded" =>
        /\ Len(f_out.loaded) = Len(f_records)
        /\ \A i \in 1..Len(f_records) :
                \A k \in DOMAIN f_records[i] : f_out.loaded[i][k] = f_records[i][k]
        /\ \A i \in 1..Len(f_records) : DOMAIN f_out.loaded[i] = DOMAIN f_records[i]
        /\ f_out.file.total_records = Len(f_out.file.records)

C19_Witness ==
    /\ f_pc = "loaded"
    /\ Len(f_records) = MaxLen
    /\ f_records[1].email = MailE
    /\ f_records[1].migliorabile
    /\ f_records[2].email = NoText
    /\ ~f_records[2].migliorabile
    /\ f_records[1].website # f_records[3].website
    /\ f_out.loaded = f_records

\* C20: the row write_rows builds for a record is the 7-tuple (email, phone,
\* website, business keyword, empty string, city, "no") in this column order;
\* the fifth column is always empty and the seventh always "no", for every
\* record, and the rows are those of the records passed, in their order.
C20_RowColumns ==
    wr_pc # "idle" =>
        /\ Len(rows) = Len(unique_records)
        /\ \A i \in 1..Len(rows) :
            LET r == unique_records[i]
            IN  /\ Len(rows[i]) = 7
                /\ rows[i][1] = r.email
                /\ rows[i][2] = r.phone
                /\ rows[i][3] = r.website
                /\ rows[i][4] = r.business_keyword
                /\ rows[i][5] = ""
                /\ rows[i][6] = r.city
                /\ rows[i][7] = "no"

C20_Witness ==
    /\ wr_pc = "returned"
    /\ Len(rows) >= 2
    /\ rows[1][3] # rows[2][3]
    /\ rows[1][6] # rows[2][6]
    /\ Len(sheet) >= 3
    /\ sheet[Len(sheet)] = rows[Len(rows)]

\* --------------------------------------------------------------- email agent
\* The agent has loaded its recipients in this run.
AgentLoaded == ag_pc \in {"send", "done"}

\* C21 as stated: when --max-emails M is given, load_recipients returns at most
\* M recipients and the run sends, or prints in dry-run, at most M emails.
C21_AsStated ==
    (AgentLoaded /\ ag_args.max_emails_given) =>
        /\ Len(ag_recipients) <= ag_args.max_emails
        /\ ag_success <= ag_args.max_emails

\* The run C21 fails on: --max-emails 1 from row 2, and two emails went out
\* over SMTP.
C21_Witness ==
    /\ ag_pc = "done"
    /\ ag_args.max_emails_given
    /\ ag_args.max_emails = 1
    /\ ag_args.start_row = 2
    /\ ~ag_args.dry_run
    /\ Len(ag_recipients) = 2
    /\ ag_smtp = 2

\* The cell holds a sent marker: "Sì" or "Si" in any case, blanks around it
\* ignored.
IsSentMarker(cell) == lower(strip(cell)) \in { << "s", "ì" >>, << "s", "i" >> }

\* The worksheet row a recipient's row number stands for; row number 0 is the
\* last row, read at index -1.
SheetRow(row_number) == IF row_number = 0 THEN Len(ag_ws) ELSE row_number

\* Rows mark_as_sent marked in a run before this one.
MarkedEarlier == { m[2] : m \in { n \in ag_marked : n[1] < ag_run } }

\* The rows load_recipients goes over, as worksheet row numbers 2 and up.
RowsInRange ==
    { r \in 2..Len(ag_ws) :
        /\ r >= ag_args.start_row
        /\ (ag_args.max_emails_given /\ ag_args.max_emails # 0) =>
                r <= ag_args.start_row + ag_args.max_emails }

FetchedPages == { k \in 1..Len(en_fetches) : en_pages[k].ok }

\* The greatest position of a non-empty set of positions.
Last(positions) == CHOOSE k \in positions : \A j \in positions : j <= k

\* The classifier's verdict on the page at candidate k.
VerdictAt(k) == assess_site_quality(en_pages[k].page)

\* A fetch happens in this step.
Fetches == en_fetches' # en_fetches

\* C23: enrich_with_site fetches the website itself, then /contatti, /contact,
\* /about, /chi-siamo, in this order and at most 5 URLs in all, and fetches
\* nothing more once emails have been found and the improvable flag is true.
C23_FetchOrderAndStop ==
    /\ [](/\ Len(en_fetches) <= 5
          /\ \A k \in 1..Len(en_fetches) :
                IF k = 1
                THEN endswith(en_fetches[k], en_website)
                ELSE /\ endswith(en_fetches[k], ContactPaths[k - 1])
                     /\ netloc(en_fetches[k]) = netloc(en_fetches[1]))
    /\ [][(en_emails # <<>> /\ en_migliorabile) => ~Fetches]_vars

C23_Witness ==
    /\ en_pc = "returned"
    /\ Len(en_fetches) = 3
    /\ ~en_pages[1].ok
    /\ en_pages[4].ok
    /\ en_pages[5].ok
    /\ en_emails # <<>>
    /\ en_migliorabile

\* C24 as stated: the flag and the notes returned are the classifier's verdict
\* and notes for the most recent page fetched successfully.
C24_AsStated ==
    (en_pc = "returned" /\ FetchedPages # {}) =>
        /\ en_result.migliorabile = VerdictAt(Last(FetchedPages)).migliorabile
        /\ en_result.note = VerdictAt(Last(FetchedPages)).note

\* C24: the flag returned is true when a fetched page was classified
\* improvable, and the notes are then those of the most recent such page;
\* otherwise the flag is false and the notes are those of the most recent page
\* fetched successfully, empty when there was none.
C24_ImprovableKept ==
    en_pc = "returned" =>
        LET improvable == { k \in FetchedPages : VerdictAt(k).migliorabile }
        IN  /\ en_result.migliorabile = (improvable # {})
            /\ en_result.note =
                 IF improvable # {} THEN VerdictAt(Last(improvable)).note
                 ELSE IF FetchedPages # {} THEN VerdictAt(Last(FetchedPages)).note
                 ELSE ""

C24_Witness ==
    /\ en_pc = "returned"
    /\ FetchedPages # {}
    /\ ~VerdictAt(Last(FetchedPages)).migliorabile
    /\ VerdictAt(Last(FetchedPages)).note # ""
    /\ en_result.migliorabile
    /\ en_result.note = "assenza https"

\* Positions of the fetched pages that named at least one email.
PagesWithEmails == { k \in FetchedPages : en_pages[k].emails # <<>> }

\* C25: the email candidates are those of the first successfully fetched page
\* that names any; pages fetched later neither add to them, replace them nor
\* clear them; choose_best_email is applied once, after the last fetch, to
\* that list.
C25_EmailsFixedByFirstPage ==
    /\ [](/\ en_emails = IF PagesWithEmails = {} THEN <<>>
                         ELSE en_pages[First(PagesWithEmails)].emails
          /\ en_chosen <= 1
          /\ en_chosen = 1 <=> (en_pc = "returned" /\ en_website # <<>>)
          /\ (en_pc = "returned" /\ en_website # <<>>) =>
                en_result.email = choose_best_email(en_emails, with_scheme(en_website)))
    /\ [][/\ en_emails # <<>> => en_emails' = en_emails
          /\ en_chosen = 1 => ~Fetches]_vars

C25_Witness ==
    /\ en_pc = "returned"
    /\ Cardinality(PagesWithEmails) >= 2
    /\ en_pages[1].emails = << EmailPlain >>
    /\ en_pages[2].emails = << EmailGmail, EmailPlain >>
    /\ en_emails = << EmailPlain >>
    /\ en_result.email = EmailPlain
    /\ en_chosen = 1

\* C26: a failed fetch does not leave enrich_with_site: the next candidate is
\* tried, so the loop ends only after the fifth fetch or when emails were found
\* on an improvable site; when every fetch fails the result is the empty
\* email, not improvable, empty notes, after exactly 5 fetches.
C26_FetchFailureSkipped ==
    /\ en_pc # "raised"
    /\ (en_pc \in {"after", "returned"} /\ en_website # <<>>) =>
            \/ Len(en_fetches) = 5
            \/ (en_emails # <<>> /\ en_migliorabile)
    /\ (en_pc = "returned" /\ en_website # <<>> /\ FetchedPages = {}) =>
            /\ Len(en_fetches) = 5
            /\ en_result = [ email |-> <<>>, migliorabile |-> FALSE, note |-> "" ]

C26_Witness ==
    /\ en_pc = "returned"
    /\ en_website = BareSite
    /\ \A k \in 1..5 : ~en_pages[k].ok
    /\ Len(en_fetches) = 5
    /\ en_result.email = <<>>
    /\ ~en_result.migliorabile

\* C27: the two acceptance filters commute: applied in either order to a list
\* they give the same list, the records of the input that have an email and
\* are improvable, in the input's order.
C27_FiltersCommute ==
    f_pc = "both_orders" =>
        /\ f_out.email_first = f_out.quality_first
        /\ f_out.email_first = SelectSeq(f_records, Accepted)

C27_Witness ==
    /\ f_pc = "both_orders"
    /\ Len(f_records) = MaxLen
    /\ Len(f_out.email_first) = 1
    /\ f_out.quality_first = << f_records[2] >>
    /\ f_records[1].migliorabile
    /\ ~HasEmail(f_records[1])
    /\ ~f_records[3].migliorabile
    /\ HasEmail(f_records[3])

\* ------------------------------------------------------------------ phases
\* Enrichment tasks that have not ended.
InFlight == { i \in 1..Len(tasks) : tasks[i].st \in {"waiting", "running"} }

\* run is between the first navigation and the final save.
Scraping == pc \in {"navigate", "extract", "gather", "aggregate", "final_save"}

\* Nothing of the store has been read or written, and no dedup has run.
StoreUntouched ==
    /\ read_calls = <<>>
    /\ append_calls = <<>>
    /\ existing_websites = {}
    /\ unique_records = <<>>
    /\ wr_pc = "idle"
    /\ rows = <<>>
    /\ sheet \in PriorSheets
    /\ pc \notin {"load_existing", "dedup", "write"}

\* C28: queries are processed one after another and the store is touched only
\* at the end: tasks are in flight only while scrape_query waits for them; the
\* tasks that exist belong to the current query, and the records of every
\* earlier query are then aggregated and checkpointed; while run is scraping or
\* a task is in flight the store is untouched; in a scraping run the store is
\* touched only after the last query.
C28_QueriesInTurnStoreLast ==
    /\ InFlight # {} => pc = "gather"
    /\ \A i \in 1..Len(tasks) :
            card_data_list[i].business_keyword = queries[query_idx].keyword
    /\ tasks # <<>> =>
            /\ \A j \in 1..Len(all_records) : QueryPos(all_records[j]) < query_idx
            /\ all_records # <<>> =>
                    Checkpointed = [j \in 1..Len(all_records) |-> to_dict(all_records[j])]
    /\ (Scraping \/ InFlight # {}) => StoreUntouched
    /\ (~args.load_from /\ ~StoreUntouched) =>
            /\ query_idx = Len(queries)
            /\ tasks = <<>>
            /\ ~Scraping

C28_Witness ==
    /\ pc = "gather"
    /\ query_idx = 2
    /\ InFlight # {}
    /\ \E i \in 1..Len(tasks) : tasks[i].st = "running"
    /\ all_records # <<>>
    /\ save_file # <<>>
    /\ StoreUntouched

\* ------------------------------------------------------------------ backoff
\* C29: the wait after failed attempt k (k = 0..3) lies between 2*2^k and
\* 2*2^k + 1 seconds, so the waits are strictly increasing; there is exactly
\* one wait between consecutive attempts, none after the fifth failure and
\* none after a success.  Waits are in tenths of a second.
C29_Backoff ==
    /\ Len(sleeps) <= 4
    /\ \A k \in 1..Len(sleeps) :
            /\ append_calls[k] = "error"
            /\ 10 * 2 * (2 ^ (k - 1)) <= sleeps[k]
            /\ sleeps[k] <= 10 * 2 * (2 ^ (k - 1)) + 10
    /\ \A k \in 1..(Len(sleeps) - 1) : sleeps[k] < sleeps[k + 1]
    /\ wr_pc = "sleep" => Len(sleeps) = Len(append_calls)
    /\ wr_pc = "append" => Len(sleeps) = Len(append_calls)
    /\ wr_pc \in {"verify", "returned"} /\ append_calls # <<>> =>
            /\ Len(sleeps) = Len(append_calls) - 1
            /\ append_calls[Len(append_calls)] = "ok"
    /\ wr_pc = "raised" =>
            /\ Len(append_calls) = 5
            /\ Len(sleeps) = 4
            /\ \A k \in 1..5 : append_calls[k] = "error"
    /\ append_calls = <<>> => sleeps = <<>>

C29_Witness ==
    /\ wr_pc = "raised"
    /\ Len(sleeps) = 4
    /\ sleeps[1] = 30
    /\ sleeps[2] = 40
    /\ sleeps[4] = 165

\* ------------------------------------------------------------------ the gate
Running == { i \in 1..Len(tasks) : tasks[i].st = "running" }

Ended(i) == i <= Len(tasks) /\ tasks[i].st \in {"done", "failed"}

\* C30: under every concurrency bound and for every batch, when each fetch
\* ends, the enrichment phase completes: the free slots and the running tasks
\* add up to the bound, a task that ends, with its record or with an
\* exception, releases its slot, every waiting task is admitted, and gather
\* returns with every task ended.
C30_EnrichmentCompletes ==
    /\ [](pc = "gather" => semaphore + Cardinality(Running) = args.max_concurrent)
    /\ [][\A i \in 1..Len(tasks) :
            (tasks[i].st = "running" /\ Ended(i)') => semaphore' = semaphore + 1]_vars
    /\ \A i \in 1..MaxTasks :
            (i <= Len(tasks) /\ tasks[i].st = "waiting")
                ~> (i <= Len(tasks) /\ tasks[i].st = "running")
    /\ (pc = "gather")
            ~> (pc = "aggregate" /\ \A i \in 1..Len(tasks) : Ended(i))

C30_Witness ==
    /\ pc = "aggregate"
    /\ args.max_concurrent = 1
    /\ Len(tasks) = MaxTasks
    /\ tasks[1].st = "failed"
    /\ tasks[MaxTasks].st = "done"
    /\ semaphore = 1

\* ------------------------------------------------------------ a bound of 0
\* C31: --max-concurrent 0 passes the checks of run, and with it no task is
\* ever admitted: every task stays waiting, a query with at least one card
\* keeps scrape_query in its gather for ever, no record is aggregated, no
\* checkpoint is written and the query index does not advance.
C31_ZeroBoundHangs ==
    /\ [](args.max_concurrent = 0 =>
            /\ exc # "ValueError"
            /\ \A i \in 1..Len(tasks) : tasks[i].st = "waiting"
            /\ semaphore = 0
            /\ tasks # <<>> => pc = "gather"
            /\ all_records = <<>>
            /\ save_file = <<>>)
    /\ [][(args.max_concurrent = 0 /\ pc = "gather") =>
            /\ pc' = "gather"
            /\ query_idx' = query_idx
            /\ tasks' = tasks]_vars

C31_Witness ==
    /\ args.max_concurrent = 0
    /\ pc = "gather"
    /\ query_idx = 1
    /\ Len(tasks) >= 1
    /\ \A i \in 1..Len(tasks) : tasks[i].st = "waiting"
    /\ save_file = <<>>

\* ------------------------------------------------------- the monotone flag
\* Positions of the fetched pages that the classifier found improvable.
ImprovablePages == { k \in FetchedPages : VerdictAt(k).migliorabile }

\* C32: within one enrich_with_site call the improvable flag never goes back
\* to false; after every iteration it is the OR of the verdicts of the pages
\* fetched so far, and the note is that of the last improvable page fetched,
\* or, when there is none, of the last page fetched; the call returns the
\* flag and the note the loop ended with.
C32_FlagMonotone ==
    /\ [][en_migliorabile => en_migliorabile']_vars
    /\ [](en_pc \in {"called", "after", "returned"} =>
            /\ en_migliorabile = (\E k \in FetchedPages : VerdictAt(k).migliorabile)
            /\ ImprovablePages # {} => en_note = VerdictAt(Last(ImprovablePages)).note
            /\ (ImprovablePages = {} /\ FetchedPages # {}) =>
                    en_note = VerdictAt(Last(FetchedPages)).note
            /\ FetchedPages = {} => en_note = "")
    /\ [](en_pc = "returned" /\ en_website # <<>> =>
            /\ en_result.migliorabile = en_migliorabile
            /\ en_result.note = en_note)

C32_Witness ==
    /\ en_pc = "returned"
    /\ en_emails = <<>>
    /\ Len(en_fetches) = 5
    /\ \E j, k \in FetchedPages :
            /\ j < k
            /\ k = Last(FetchedPages)
            /\ VerdictAt(j).migliorabile
            /\ ~VerdictAt(k).migliorabile
            /\ VerdictAt(k).note # VerdictAt(j).note
            /\ en_result.note = VerdictAt(j).note
    /\ en_result.migliorabile

\* ------------------------------------------------- a failed read of the store
\* The sheet as the run found it.
OriginalSheet ==
    IF OkCalls = {} THEN sheet ELSE SubSeq(sheet, 1, Len(sheet) - Len(rows))

\* The website column held websites and run read none: the read failed.
ReadFailed ==
    /\ DedupRan
    /\ existing_websites = {}
    /\ load_existing_websites(OriginalSheet) # {}

\* C33: the step that reads the website column never raises: it leaves the
\* websites of the sheet or, when the read fails, the empty set, and run goes
\* on to dedup.  After a failed read dedup discards a record only for an
\* earlier accepted record of the run with the same website, and a successful
\* append adds every record dedup kept to the sheet as it was found, whatever
\* websites that sheet holds.
C33_FailedReadEmptySet ==
    /\ [][pc = "load_existing" =>
            /\ pc' = "dedup"
            /\ exc' = exc
            /\ existing_websites' \in { load_existing_websites(sheet), {} }]_vars
    /\ [](ReadFailed =>
            /\ \A j \in 1..Len(bad_sites) :
                    LET k == strip(bad_sites[j].website)
                    IN  (k = <<>> \/ \A i \in 1..(j - 1) : strip(bad_sites[i].website) # k)
                            => \E u \in 1..Len(unique_records) : unique_records[u] = bad_sites[j]
            /\ OkCalls # {} => sheet = OriginalSheet \o RowsOf(unique_records))

C33_Witness ==
    /\ ReadFailed
    /\ pc = "done"
    /\ OkCalls # {}
    /\ \E i \in (Len(OriginalSheet) + 1)..Len(sheet) :
            strip(sheet[i][3]) \in load_existing_websites(OriginalSheet)

\* ------------------------------------------------------- nothing to write
\* run is connecting to the store, reading it, or past that.
StoreReached ==
    \/ pc \in {"connect", "load_existing", "dedup", "write"}
    \/ existing_websites # {}
    \/ wr_pc # "idle"
    \/ read_calls # <<>>
    \/ append_calls # <<>>

\* C34: write_rows is called, and append_rows with it, only with a non-empty
\* deduplicated list; the store is connected to and read only when the
\* acceptance filter left a record (and a sheet is named); from the end of the
\* processing step with no accepted record run goes straight to its end;
\* write_rows, once called, is never called again, and at most one append
\* succeeds.
C34_NoWriteWithoutRecords ==
    /\ [](wr_pc # "idle" => (pc \in {"write", "done", "raised"} /\ unique_records # <<>>))
    /\ [](append_calls # <<>> => (wr_pc # "idle" /\ rows = RowsOf(unique_records)))
    /\ [](StoreReached => (bad_sites # <<>> /\ args.sheet_id))
    /\ [](Cardinality(OkCalls) <= 1)
    /\ [][(pc = "process" /\ bad_sites' = <<>>) => pc' = "done"]_vars
    /\ [][(pc = "dedup" /\ unique_records' = <<>>) => (pc' = "done" /\ wr_pc' = "idle")]_vars
    /\ [][wr_pc # "idle" => wr_pc' # "idle"]_vars
    /\ [][(wr_pc # "idle" /\ pc = "write") => UNCHANGED << rows, unique_records >>]_vars

C34_Witness ==
    /\ pc = "done"
    /\ bad_sites # <<>>
    /\ args.sheet_id
    /\ existing_websites # {}
    /\ unique_records = <<>>
    /\ wr_pc = "idle"
    /\ append_calls = <<>>
    /\ read_calls = <<>>

\* ---------------------------------------------------------------- the caps
\* The entry names a keyword and a city.
HasKeywordAndCity(item) ==
    /\ "keyword" \in DOMAIN item
    /\ item.keyword # <<>>
    /\ "city" \in DOMAIN item
    /\ item.city # <<>>

\* Positions of the file's entries that name both, in order.
KeptItems ==
    SelectSeq([i \in 1..Len(p_in) |-> i], LAMBDA i : HasKeywordAndCity(p_in[i]))

\* C35: the queries of a run are the file's entries that name a keyword and a
\* city, in order, each with its own max or, without one, the global
\* --max-per-query; and for the query being scraped the cards extracted, the
\* tasks and the records never exceed the query's max, the global value, or
\* the number of cards the listing shows.
C35_CardsCapped ==
    f_pc = "queries" =>
        /\ Len(queries) = Len(KeptItems)
        /\ \A j \in 1..Len(queries) :
                LET item == p_in[KeptItems[j]]
                IN  /\ queries[j].keyword = as_text(strip(item.keyword))
                    /\ queries[j].city = as_text(strip(item.city))
                    /\ queries[j].max = IF "max" \in DOMAIN item THEN item.max
                                        ELSE args.max_per_query
        /\ pc \in {"extract", "gather", "aggregate"} =>
                \A n \in { idx, Len(card_data_list), Len(tasks),
                            IF pc = "aggregate" THEN Len(recs) ELSE 0 } :
                    /\ n <= queries[query_idx].max
                    /\ n <= args.max_per_query
                    /\ n <= cards_count

C35_Witness ==
    /\ f_pc = "queries"
    /\ p_in = << ItemFull, ItemNoCity, ItemSmall >>
    /\ Len(queries) = 2
    /\ args.max_per_query = MaxPerQuery
    /\ pc = "gather"
    /\ query_idx = 1
    /\ queries[1].max > args.max_per_query
    /\ cards_count > args.max_per_query
    /\ Len(tasks) = args.max_per_query
    /\ queries[2] = [ keyword |-> "k3", city |-> "c3", max |-> 1 ]

\* ------------------------------------------------------------ the send loop
\* The agent is in a run: its arguments are at hand.
AgentInRun == ag_pc \in {"start", "send", "done", "raised"}

\* The row numbers of the first n recipients, in order.
RowNumbers(n) == [j \in 1..n |-> ag_recipients[j].row_number]

\* C36: in the send loop the worksheet changes, and a row is marked, only in
\* the iteration of a recipient for whom send_email returned success in a
\* non-dry-run, and then only the header and that recipient's row change; in
\* dry-run nothing goes over SMTP and the worksheet stays as it is; an error
\* for one recipient is counted and the loop goes on to the next; the
\* recipients are handled once each, in order, and at the end success_count +
\* error_count is the number of recipients loaded.
C36_SendLoop ==
    /\ [][(ag_ws' # ag_ws \/ ag_marked' # ag_marked) =>
            /\ ag_pc = "send"
            /\ ~ag_args.dry_run
            /\ ag_success' = ag_success + 1
            /\ ag_error' = ag_error
            /\ ag_smtp' = ag_smtp + 1
            /\ Len(ag_ws') = Len(ag_ws)
            /\ \A r \in 2..Len(ag_ws) :
                    r # ag_recipients[ag_i].row_number => ag_ws'[r] = ag_ws[r]
            /\ ag_marked' \subseteq ag_marked \cup { << ag_run, ag_recipients[ag_i].row_number >> }]_vars
    /\ []((AgentInRun /\ ag_args.dry_run) => ag_smtp = 0)
    /\ [](ag_smtp <= ag_success)
    /\ [][(ag_pc = "send" /\ ag_error' = ag_error + 1) =>
            /\ ag_success' = ag_success
            /\ IF ag_i < Len(ag_recipients)
               THEN ag_pc' = "send" /\ ag_i' = ag_i + 1
               ELSE ag_pc' = "done"]_vars
    /\ [](ag_pc = "send" =>
            /\ ag_i \in 1..Len(ag_recipients)
            /\ ag_handled = RowNumbers(ag_i - 1)
            /\ ag_success + ag_error = ag_i - 1)
    /\ [](ag_pc = "done" =>
            /\ ag_handled = RowNumbers(Len(ag_recipients))
            /\ ag_success + ag_error = Len(ag_recipients))

C36_Witness ==
    /\ ag_pc = "done"
    /\ ~ag_args.dry_run
    /\ Len(ag_recipients) = 2
    /\ ag_error = 1
    /\ ag_success = 1
    /\ ag_smtp = 1
    /\ ag_last.row_number = ag_recipients[2].row_number
    /\ << ag_run, ag_recipients[2].row_number >> \in ag_marked
    /\ << ag_run, ag_recipients[1].row_number >> \notin ag_marked

====
